---- MODULE Spec2Model ----
(***************************************************************************)
(* Model of the security layer of the AnkiDroid JS API bridge:             *)
(*   - RateLimiter (security.py): token bucket per "identifier:operation"  *)
(*     key with an inline stale-entry sweep;                                *)
(*   - handle_pycmd / _send_callback (api_bridge.py): the command router.  *)
(*                                                                         *)
(* Time is counted in ticks of 1/TicksPerSec seconds and tokens in units   *)
(* of 1/TicksPerSec token, so that tokens + elapsed * max_per_second is    *)
(* exact integer arithmetic.                                               *)
(***************************************************************************)
EXTENDS Integers, Sequences, FiniteSets, TLC

VARIABLES
    now,            \* value time.time() returns, in ticks
    ticks,          \* number of clock advances so far (bounds the run)
    buckets,        \* RateLimiter._buckets: key -> <<tokens, last_refill>>
    call_counts,    \* RateLimiter._call_counts: key -> int
    last_cleanup,   \* RateLimiter._last_cleanup
    res,            \* observation: the last check() call and what it returned
    usedN,          \* observation: key -> the max_per_second values used since its bucket was created
    streak,         \* observation: key -> number of check() calls since creation, 0 once time has moved
    hist,           \* observation: key -> the admitted calls since its bucket was created, the time of
                    \* the last one, and the max_per_second of the creating call
    reviewer,       \* the host's reviewer object handed to handle_pycmd
    API_REGISTRY,   \* the registered function names
    last,           \* observation: what the last handle_pycmd call did
    probe,          \* observation: the last command as it was sent, and how its function was called
    twin,           \* a second limiter that receives the same calls except those of one key
    twinRes,        \* observation: what the twin's last check() returned
    charged,        \* observation: the admitted commands of each (caller, function) pair
    threads,        \* concurrent callers of check(): each one's position and local variables
    mutex,          \* the lock of a concurrent port: whether there is one, and its holder
    race,           \* observation: admitted calls per key at this clock value, KeyError seen
    call            \* a call of a validator or of sanitize_for_logging: arguments and outcome

clock == <<now, ticks>>
limiter == <<buckets, call_counts, last_cleanup>>
obs == <<res, usedN, streak, hist>>
router == <<reviewer, API_REGISTRY, last, probe>>
twins == <<twin, twinRes>>
aside == <<charged, threads, mutex, race, call>>
vars == <<clock, limiter, obs, router, twins, aside>>

----------------------------------------------------------------------------
(* Bounds of the model *)

TicksPerSec == 2
MaxTicks == 2
MaxStreak == 5
MaxRouterTicks == 1

(* Program constants *)

RATE_LIMITER_CLEANUP_INTERVAL_SEC == 300
RATE_LIMITER_STALE_THRESHOLD_SEC == 3600
DEFAULT_API_RATE_LIMIT_PER_SECOND == 10
MAX_JSON_PAYLOAD_BYTES == 10240

CleanupInterval == RATE_LIMITER_CLEANUP_INTERVAL_SEC * TicksPerSec
StaleThreshold == RATE_LIMITER_STALE_THRESHOLD_SEC * TicksPerSec

(* Inputs of the limiter *)

Identifiers == {"a", "a:b"}
Operations == {"c"}
Rates == {1, 2}
Deltas == {1, CleanupInterval + 1, StaleThreshold + 1}

Min(x, y) == IF x <= y THEN x ELSE y

----------------------------------------------------------------------------
(* RateLimiter *)

\* key = f"{identifier}:{operation}"
Key(identifier, operation) == identifier \o ":" \o operation

\* k.startswith(p)
StartsWith(k, p) == Len(k) >= Len(p) /\ SubSeq(k, 1, Len(p)) = p

\* A function restricted to the keys in S
Restrict(f, S) == [k \in S |-> f[k]]

\* dict[key] = value
Put(f, key, value) == [k \in DOMAIN f \cup {key} |-> IF k = key THEN value ELSE f[k]]

\* The limiter's three class attributes as one value
Limiter(b, c, lc) == [buckets |-> b, call_counts |-> c, last_cleanup |-> lc]

\* _call_counts.get(key, 0)
get_call_count(c, identifier, operation) ==
    LET key == Key(identifier, operation)
    IN IF key \in DOMAIN c THEN c[key] ELSE 0

\* A cleanup that also deletes the entries exactly at the threshold
cleanup_stale_entries_inclusive(L, t) ==
    LET stale_keys == {k \in DOMAIN L.buckets : t - L.buckets[k][2] >= StaleThreshold}
    IN [L EXCEPT !.buckets = Restrict(@, DOMAIN @ \ stale_keys),
                 !.call_counts = Restrict(@, DOMAIN @ \ stale_keys)]

\* _cleanup_stale_entries(now): delete every bucket with now - last_refill > _STALE_THRESHOLD,
\* and its counter
cleanup_stale_entries(L, t) ==
    LET stale_keys == {k \in DOMAIN L.buckets : t - L.buckets[k][2] > StaleThreshold}
    IN [L EXCEPT !.buckets = Restrict(@, DOMAIN @ \ stale_keys),
                 !.call_counts = Restrict(@, DOMAIN @ \ stale_keys)]

\* A check() without the sweep
SweepNever(L, t) == L

\* A sweep that already runs when exactly the interval has passed
SweepInclusive(L, t) ==
    IF t - L.last_cleanup >= CleanupInterval
    THEN [cleanup_stale_entries(L, t) EXCEPT !.last_cleanup = t]
    ELSE L

\* The sweep at the head of check(): runs when now - _last_cleanup > _CLEANUP_INTERVAL
Sweep(L, t) ==
    IF t - L.last_cleanup > CleanupInterval
    THEN [cleanup_stale_entries(L, t) EXCEPT !.last_cleanup = t]
    ELSE L

\* A refill that counts whole seconds only
RefillWholeSeconds(tokens, elapsed, max_per_second) ==
    Min(max_per_second * TicksPerSec,
        tokens + (elapsed \div TicksPerSec) * TicksPerSec * max_per_second)

\* A refill bounded by the default rate instead of the call's max_per_second
RefillDefaultCap(tokens, elapsed, max_per_second) ==
    Min(DEFAULT_API_RATE_LIMIT_PER_SECOND * TicksPerSec, tokens + elapsed * max_per_second)

\* A refill bounded by twice the rate
RefillDoubleCap(tokens, elapsed, max_per_second) ==
    Min(2 * max_per_second * TicksPerSec, tokens + elapsed * max_per_second)

\* A refill that forgets the cap
RefillUncapped(tokens, elapsed, max_per_second) == tokens + elapsed * max_per_second

\* tokens = min(float(max_per_second), tokens + elapsed * max_per_second), in token units
Refill(tokens, elapsed, max_per_second) ==
    Min(max_per_second * TicksPerSec, tokens + elapsed * max_per_second)

\* A creation that charges the first call
FreshTokensCharged(max_per_second) == max_per_second * TicksPerSec - TicksPerSec

\* The tokens a bucket is created with: float(max_per_second)
FreshTokens(max_per_second) == max_per_second * TicksPerSec

\* A check() whose rejection stores the refilled tokens and restarts the refill clock
check_rejection_restamps(L, t, identifier, operation, max_per_second) ==
    LET L1 == Sweep(L, t)
        key == Key(identifier, operation)
    IN IF key \notin DOMAIN L1.buckets
       THEN [L |-> [L1 EXCEPT !.buckets = Put(@, key, <<FreshTokens(max_per_second), t>>),
                              !.call_counts = Put(@, key, 1)],
             ok |-> TRUE, fresh |-> TRUE]
       ELSE LET elapsed == t - L1.buckets[key][2]
                tokens == Refill(L1.buckets[key][1], elapsed, max_per_second)
            IN IF tokens >= TicksPerSec
               THEN [L |-> [L1 EXCEPT !.buckets = Put(@, key, <<tokens - TicksPerSec, t>>),
                                      !.call_counts = Put(@, key,
                                            (IF key \in DOMAIN @ THEN @[key] ELSE 0) + 1)],
                     ok |-> TRUE, fresh |-> FALSE]
               ELSE [L |-> [L1 EXCEPT !.buckets = Put(@, key, <<tokens, t>>)],
                     ok |-> FALSE, fresh |-> FALSE]

\* A check() that counts the rejected calls as well
check_counting_attempts(L, t, identifier, operation, max_per_second) ==
    LET L1 == Sweep(L, t)
        key == Key(identifier, operation)
    IN IF key \notin DOMAIN L1.buckets
       THEN [L |-> [L1 EXCEPT !.buckets = Put(@, key, <<FreshTokens(max_per_second), t>>),
                              !.call_counts = Put(@, key, 1)],
             ok |-> TRUE, fresh |-> TRUE]
       ELSE LET elapsed == t - L1.buckets[key][2]
                tokens == Refill(L1.buckets[key][1], elapsed, max_per_second)
                counted == [L1 EXCEPT !.call_counts = Put(@, key,
                                            (IF key \in DOMAIN @ THEN @[key] ELSE 0) + 1)]
            IN IF tokens >= TicksPerSec
               THEN [L |-> [counted EXCEPT !.buckets = Put(@, key, <<tokens - TicksPerSec, t>>)],
                     ok |-> TRUE, fresh |-> FALSE]
               ELSE [L |-> counted, ok |-> FALSE, fresh |-> FALSE]

\* RateLimiter.check(identifier, operation, max_per_second) at clock value t.
\* Returns the new limiter state, the result, and whether the bucket was created.
check(L, t, identifier, operation, max_per_second) ==
    LET L1 == Sweep(L, t)
        key == Key(identifier, operation)
    IN IF key \notin DOMAIN L1.buckets
       THEN [L |-> [L1 EXCEPT !.buckets = Put(@, key, <<FreshTokens(max_per_second), t>>),
                              !.call_counts = Put(@, key, 1)],
             ok |-> TRUE, fresh |-> TRUE]
       ELSE LET elapsed == t - L1.buckets[key][2]
                tokens == Refill(L1.buckets[key][1], elapsed, max_per_second)
            IN IF tokens >= TicksPerSec
               THEN [L |-> [L1 EXCEPT !.buckets = Put(@, key, <<tokens - TicksPerSec, t>>),
                                      !.call_counts = Put(@, key,
                                            (IF key \in DOMAIN @ THEN @[key] ELSE 0) + 1)],
                     ok |-> TRUE, fresh |-> FALSE]
               ELSE [L |-> L1, ok |-> FALSE, fresh |-> FALSE]

\* RateLimiter.reset(identifier): identifier = "" stands for None (falsy in the code as well)
reset(L, identifier) ==
    IF identifier # ""
    THEN LET keys_to_remove == {k \in DOMAIN L.buckets : StartsWith(k, identifier \o ":")}
         IN [L EXCEPT !.buckets = Restrict(@, DOMAIN @ \ keys_to_remove),
                      !.call_counts = Restrict(@, DOMAIN @ \ keys_to_remove)]
    ELSE [L EXCEPT !.buckets = <<>>, !.call_counts = <<>>]

----------------------------------------------------------------------------
(* InputValidator._CALLBACK_ID_PATTERN = re.compile(r'^-?\d+$'), used with .match() *)

\* The characters \d accepts among those the commands of the model are written in
\* (on a str pattern \d also accepts the decimal digits of other scripts)
Digits == {"0", "1", "2", "3", "4", "5", "6", "7", "8", "9"}

\* s[i:] (1-based)
Drop(s, i) == SubSeq(s, i, Len(s))

\* \d+ over the whole of s
AllDigits(s) == Len(s) >= 1 /\ \A i \in 1..Len(s) : SubSeq(s, i, i) \in Digits

\* What '$' accepts in Python: the end of the string, or a newline that ends the string
AtDollar(s) == s = "" \/ s = "\n"

\* _CALLBACK_ID_PATTERN.match(s): an optional '-', then digits (greedy), then '$'
MatchesCallbackId(s) ==
    LET body == IF StartsWith(s, "-") THEN Drop(s, 2) ELSE s
    IN \E n \in 1..Len(body) : AllDigits(SubSeq(body, 1, n)) /\ AtDollar(Drop(body, n + 1))

----------------------------------------------------------------------------
(* The command router: handle_pycmd and _send_callback *)

\* Index of the first sep at or after position i of s, 0 when there is none
RECURSIVE Find(_, _, _)
Find(s, sep, i) ==
    IF i > Len(s) THEN 0
    ELSE IF SubSeq(s, i, i) = sep THEN i
    ELSE Find(s, sep, i + 1)

\* s.split(sep, maxsplit) for a one-character sep
RECURSIVE Split(_, _, _)
Split(s, sep, maxsplit) ==
    LET i == IF maxsplit = 0 THEN 0 ELSE Find(s, sep, 1)
    IN IF i = 0 THEN <<s>>
       ELSE <<SubSeq(s, 1, i - 1)>> \o Split(Drop(s, i + 1), sep, maxsplit - 1)

\* generate_template_hash(template_content)[:16] for the templates of the model
\* (the first 16 hex digits of their SHA-256 digests)
TemplateHash16 ==
    [t \in {"", "{{Front}}", "{{Back}}"} |->
        IF t = "" THEN "e3b0c44298fc1c14"
        ELSE IF t = "{{Front}}" THEN "1759929f4cdf1cb1"
        ELSE "19cc24c777dae203"]

\* The reviewer objects handle_pycmd can be given.  card is "none" (no card), "ok"
\* (template() returns a dict with qfmt) or "error" (template() raises).
NoReviewer == [present |-> FALSE, card |-> "none", qfmt |-> "", web |-> FALSE]
Reviewers ==
    {NoReviewer,
     [present |-> TRUE, card |-> "error", qfmt |-> "", web |-> TRUE],
     [present |-> TRUE, card |-> "ok", qfmt |-> "{{Front}}", web |-> TRUE]}

\* One identifier for every caller
TemplateIdGlobal(rev) == "unknown"

\* template_id of handle_pycmd: "unknown" unless a card with a template is displayed
TemplateId(rev) ==
    IF rev.present /\ rev.card = "ok" THEN TemplateHash16[rev.qfmt] ELSE "unknown"

\* Payload texts.  Pad(n) is n spaces built by doubling.
Sp1 == " "
Sp2 == Sp1 \o Sp1
Sp4 == Sp2 \o Sp2
Sp8 == Sp4 \o Sp4
Sp16 == Sp8 \o Sp8
Sp32 == Sp16 \o Sp16
Sp64 == Sp32 \o Sp32
Sp128 == Sp64 \o Sp64
Sp256 == Sp128 \o Sp128
Sp512 == Sp256 \o Sp256
Sp1024 == Sp512 \o Sp512
Sp2048 == Sp1024 \o Sp1024
Sp4096 == Sp2048 \o Sp2048
Sp8192 == Sp4096 \o Sp4096
\* "{}" followed by spaces: exactly MAX_JSON_PAYLOAD_BYTES characters, and one more
AtCap == "{}" \o Sp8192 \o Sp2048 \o SubSeq(Sp2048, 1, MAX_JSON_PAYLOAD_BYTES - 2 - 8192 - 2048)
OverCap == AtCap \o " "

\* json.loads on the payload texts of the model: the value and its type, or a decode
\* error.  A dict is the sequence of its (key, value) items, a list that of its values,
\* each under the key "".
JsonLoads(text) ==
    IF text \in {"{}", AtCap, OverCap} THEN [ok |-> TRUE, isdict |-> TRUE, value |-> <<>>]
    ELSE IF text = "{\"a\":1}"
         THEN [ok |-> TRUE, isdict |-> TRUE, value |-> <<(<<"a", "1">>)>>]
    ELSE IF text = "[1]" THEN [ok |-> TRUE, isdict |-> FALSE, value |-> <<(<<"", "1">>)>>]
    ELSE [ok |-> FALSE, isdict |-> FALSE, value |-> <<>>]

\* What a registered function can do when called
FuncOutcomes ==
    [kind : {"return"}, value : {5}, exc : {""}, msg : {""}, serializable : BOOLEAN] \cup
    [kind : {"raise"}, value : {0}, exc : {"ValueError"}, msg : {"m1", "m2"},
     serializable : {TRUE}] \cup
    [kind : {"raise"}, value : {0}, exc : {"KeyError"}, msg : {"m1"}, serializable : {TRUE}] \cup
    [kind : {"raise_base"}, value : {0}, exc : {"KeyboardInterrupt"}, msg : {""},
     serializable : {TRUE}]

NoExc == [kind |-> "", msg |-> ""]
Exc(kind, msg) == [kind |-> kind, msg |-> msg]

SuccessResponse(v) == [success |-> TRUE, result |-> v]
ErrorResponse(e) == [success |-> FALSE, error |-> e]

\* _send_callback(reviewer, callback_id, response).  serializable: json.dumps accepts
\* the response; evalRaises: web.eval raises.  Returns the web.eval calls made and
\* the exception that leaves the function ("" for none).
send_callback(rev, callback_id, response, serializable, evalRaises) ==
    IF ~MatchesCallbackId(callback_id) THEN [evals |-> <<>>, raised |-> NoExc]
    ELSE IF ~serializable
         THEN [evals |-> <<>>, raised |-> Exc("TypeError", "not JSON serializable")]
    ELSE IF rev.present /\ rev.web
         THEN [evals |-> <<[callback_id |-> callback_id, response |-> response,
                            raised |-> evalRaises]>>,
               raised |-> IF evalRaises THEN Exc("RuntimeError", "eval") ELSE NoExc]
    ELSE [evals |-> <<>>, raised |-> NoExc]

\* What one handle_pycmd call did; Dropped is a call that returned before the rate check
Dropped(L) ==
    [L |-> L,                   \* the limiter afterwards
     dropped |-> TRUE,          \* returned before the rate check
     callback_id |-> "",        \* parts[1]
     function_name |-> "",      \* parts[2]
     checked |-> FALSE,         \* RateLimiter.check was called
     admitted |-> FALSE,        \* ... and returned True
     parsed |-> FALSE,          \* json.loads was called
     invoked |-> 0,             \* number of calls of the registered function
     fcall |-> "none",          \* what the registered function did: return, raise, raise_base
     callmode |-> "none",       \* how it was called: kwargs (func(**args)) or positional (func(args))
     args |-> <<>>,             \* args of that call: the dict expanded or the value passed
     caught |-> NoExc,          \* the exception the except block caught
     evals |-> <<>>,            \* the web.eval calls, in order
     raised |-> ""]             \* kind of the exception that left handle_pycmd, "" for none

\* The call once RateLimiter.check has returned
Checked(L, cb, fn, ok) ==
    [Dropped(L) EXCEPT !.dropped = FALSE, !.callback_id = cb, !.function_name = fn,
                       !.checked = TRUE, !.admitted = ok]

\* The call's outcome after a _send_callback that is its last statement
Sent(o, s) == [o EXCEPT !.evals = @ \o s.evals, !.raised = s.raised.kind]

\* error_msg of the lookup failure
UnknownFunctionUnnamed(function_name) == "Unknown API function"

UnknownFunction(function_name) == "Unknown API function: " \o function_name

\* user_msg of the except block
OperationFailedLeaky(e) == "Operation failed: " \o e.kind \o ": " \o e.msg

OperationFailed(e) == "Operation failed: " \o e.kind

\* The size check that never fires
TooLargeNever(args_json) == FALSE

\* len(args_json) > MAX_JSON_PAYLOAD_BYTES
TooLarge(args_json) == Len(args_json) > MAX_JSON_PAYLOAD_BYTES

\* An except block that answers nothing
except_block_silent(o, rev, e, evalFails) == [o EXCEPT !.caught = e]

\* The except block of handle_pycmd: answer "Operation failed: <kind>"
except_block(o, rev, e, evalFails) ==
    Sent([o EXCEPT !.caught = e],
         send_callback(rev, o.callback_id, ErrorResponse(OperationFailed(e)), TRUE,
                       (Len(o.evals) + 1) \in evalFails))

\* A call that always expands its argument
CallModeKeywordsOnly(args_json) == "kwargs"

\* args = json.loads(args_json) if args_json else {}; func(**args) if isinstance(args, dict)
\* else func(args)
CallMode(args_json) ==
    IF args_json = "" \/ JsonLoads(args_json).isdict THEN "kwargs" ELSE "positional"

\* The try block of handle_pycmd: size check, json.loads, the call, the success response
try_block(o, rev, args_json, fOut, evalFails) ==
    IF TooLarge(args_json)
    THEN except_block(o, rev, Exc("ValueError", "JSON payload too large"), evalFails)
    ELSE IF args_json # "" /\ ~JsonLoads(args_json).ok
    THEN except_block([o EXCEPT !.parsed = TRUE], rev, Exc("JSONDecodeError", args_json),
                      evalFails)
    ELSE LET called == [o EXCEPT !.parsed = (args_json # ""), !.invoked = 1,
                                 !.fcall = fOut.kind, !.callmode = CallMode(args_json),
                                 !.args = IF args_json = "" THEN <<>>
                                          ELSE JsonLoads(args_json).value]
         IN IF fOut.kind = "raise"
            THEN except_block(called, rev, Exc(fOut.exc, fOut.msg), evalFails)
            ELSE IF fOut.kind = "raise_base"
            THEN [called EXCEPT !.raised = fOut.exc]
            ELSE LET s == send_callback(rev, o.callback_id, SuccessResponse(fOut.value),
                                        fOut.serializable, 1 \in evalFails)
                 IN IF s.raised # NoExc
                    THEN except_block([called EXCEPT !.evals = s.evals], rev, s.raised,
                                      evalFails)
                    ELSE Sent(called, s)

\* A lookup that lets every name through
lookup_open(o, registry, rev, args_json, fOut, evalFails) ==
    try_block(o, rev, args_json, fOut, evalFails)

\* A lookup that comes after the size check
lookup_after_size(o, registry, rev, args_json, fOut, evalFails) ==
    IF TooLarge(args_json) \/ o.function_name \in registry
    THEN try_block(o, rev, args_json, fOut, evalFails)
    ELSE Sent(o, send_callback(rev, o.callback_id,
                               ErrorResponse(UnknownFunction(o.function_name)), TRUE,
                               1 \in evalFails))

\* The registry lookup of handle_pycmd and what follows it
lookup(o, registry, rev, args_json, fOut, evalFails) ==
    IF o.function_name \notin registry
    THEN Sent(o, send_callback(rev, o.callback_id,
                               ErrorResponse(UnknownFunction(o.function_name)), TRUE,
                               1 \in evalFails))
    ELSE try_block(o, rev, args_json, fOut, evalFails)

\* A rate check made for the registered names only
rate_check_registered_only(L, registry, t, rev, cb, fn, args_json, fOut, evalFails) ==
    IF fn \notin registry
    THEN Sent([Dropped(L) EXCEPT !.dropped = FALSE, !.callback_id = cb, !.function_name = fn],
              send_callback(rev, cb, ErrorResponse(UnknownFunction(fn)), TRUE, 1 \in evalFails))
    ELSE LET r == check(L, t, TemplateId(rev), fn, DEFAULT_API_RATE_LIMIT_PER_SECOND)
         IN IF ~r.ok
            THEN Sent(Checked(r.L, cb, fn, FALSE),
                      send_callback(rev, cb, ErrorResponse("Rate limit exceeded"), TRUE,
                                    1 \in evalFails))
            ELSE lookup(Checked(r.L, cb, fn, TRUE), registry, rev, args_json, fOut, evalFails)

\* A rate check whose rejection does not end the call
rate_check_fallthrough(L, registry, t, rev, cb, fn, args_json, fOut, evalFails) ==
    LET r == check(L, t, TemplateId(rev), fn, DEFAULT_API_RATE_LIMIT_PER_SECOND)
    IN lookup(Checked(r.L, cb, fn, r.ok), registry, rev, args_json, fOut, evalFails)

\* The rate check of handle_pycmd and what follows it
rate_check(L, registry, t, rev, cb, fn, args_json, fOut, evalFails) ==
    LET r == check(L, t, TemplateId(rev), fn, DEFAULT_API_RATE_LIMIT_PER_SECOND)
    IN IF ~r.ok
       THEN Sent(Checked(r.L, cb, fn, FALSE),
                 send_callback(rev, cb, ErrorResponse("Rate limit exceeded"), TRUE,
                               1 \in evalFails))
       ELSE lookup(Checked(r.L, cb, fn, TRUE), registry, rev, args_json, fOut, evalFails)

\* A handle_pycmd without the check of the number of fields
handle_pycmd_short_routed(L, registry, t, rev, cmd, fOut, evalFails) ==
    IF ~StartsWith(cmd, "ankidroidjs:")
    THEN Dropped(L)
    ELSE LET parts == Split(cmd, ":", 3)
         IN rate_check(L, registry, t, rev,
                       IF Len(parts) > 1 THEN parts[2] ELSE "",
                       IF Len(parts) > 2 THEN parts[3] ELSE "",
                       IF Len(parts) > 3 THEN parts[4] ELSE "{}", fOut, evalFails)

\* A handle_pycmd that checks the callback id before anything else
handle_pycmd_validating_first(L, registry, t, rev, cmd, fOut, evalFails) ==
    IF ~StartsWith(cmd, "ankidroidjs:")
    THEN Dropped(L)
    ELSE LET parts == Split(cmd, ":", 3)
         IN IF Len(parts) < 3 \/ ~MatchesCallbackId(parts[2])
            THEN Dropped(L)
            ELSE rate_check(L, registry, t, rev, parts[2], parts[3],
                            IF Len(parts) > 3 THEN parts[4] ELSE "{}", fOut, evalFails)

\* A handle_pycmd that splits the command at every colon
handle_pycmd_split_all(L, registry, t, rev, cmd, fOut, evalFails) ==
    IF ~StartsWith(cmd, "ankidroidjs:")
    THEN Dropped(L)
    ELSE LET parts == Split(cmd, ":", -1)
         IN IF Len(parts) < 3
            THEN Dropped(L)
            ELSE rate_check(L, registry, t, rev, parts[2], parts[3],
                            IF Len(parts) > 3 THEN parts[4] ELSE "{}", fOut, evalFails)

\* handle_pycmd(reviewer, cmd) at clock value t.  fOut is what the registered function
\* does if it is called, evalFails the web.eval calls (1st, 2nd) that raise.
handle_pycmd(L, registry, t, rev, cmd, fOut, evalFails) ==
    IF ~StartsWith(cmd, "ankidroidjs:")
    THEN Dropped(L)
    ELSE LET parts == Split(cmd, ":", 3)
         IN IF Len(parts) < 3
            THEN Dropped(L)
            ELSE rate_check(L, registry, t, rev, parts[2], parts[3],
                            IF Len(parts) > 3 THEN parts[4] ELSE "{}", fOut, evalFails)

----------------------------------------------------------------------------
(* The limiter driven directly *)

NoRes == [key |-> "", N |-> 0, ok |-> FALSE, fresh |-> FALSE, called |-> FALSE]
NoDispatch == [dispatched |-> FALSE]
NoProbe == [shape |-> "none", args_bad |-> FALSE, args_isdict |-> FALSE, returned |-> 0,
            callmode |-> "none"]
NoTwin == Limiter(<<>>, <<>>, 0)
NoCharge == [count |-> <<>>, who |-> <<>>]
Threads == {1, 2}
Idle == [pc |-> "idle", identifier |-> "", operation |-> "", key |-> "", N |-> 0, now |-> 0,
         tokens |-> 0, last_refill |-> 0, start |-> NoTwin]
NoThreads == [t \in Threads |-> Idle]
NoMutex == [enabled |-> FALSE, holder |-> 0]
NoRace == [admits |-> <<>>, keyError |-> FALSE]
NoCall == [op |-> "none"]

Cur == Limiter(buckets, call_counts, last_cleanup)

SetLimiter(L) ==
    /\ buckets' = L.buckets
    /\ call_counts' = L.call_counts
    /\ last_cleanup' = L.last_cleanup

\* The observations follow the buckets: a key that lost its bucket loses its history
Observe(L, key, N, fresh, called, ok) ==
    /\ hist' = [k \in DOMAIN L.buckets |->
                    IF k = key /\ called
                    THEN (IF fresh \/ k \notin DOMAIN hist
                          THEN [admits |-> 1, lastAdmit |-> now, cap |-> N]
                          ELSE IF ok
                               THEN [hist[k] EXCEPT !.admits = @ + 1, !.lastAdmit = now]
                               ELSE hist[k])
                    ELSE IF k \in DOMAIN hist THEN hist[k]
                         ELSE [admits |-> 0, lastAdmit |-> 0, cap |-> 0]]
    /\ usedN' = [k \in DOMAIN L.buckets |->
                    IF k = key /\ called
                    THEN (IF fresh \/ k \notin DOMAIN usedN THEN {N} ELSE usedN[k] \cup {N})
                    ELSE IF k \in DOMAIN usedN THEN usedN[k] ELSE {}]
    /\ streak' = [k \in DOMAIN L.buckets |->
                    IF k = key /\ called
                    THEN (IF fresh THEN 1
                          ELSE IF k \in DOMAIN streak /\ streak[k] > 0 /\ usedN[k] = {N}
                               THEN Min(streak[k] + 1, MaxStreak)
                               ELSE 0)
                    ELSE IF k \in DOMAIN streak THEN streak[k] ELSE 0]

RLInit ==
    /\ now = 0
    /\ ticks = 0
    /\ buckets = <<>>
    /\ call_counts = <<>>
    /\ last_cleanup = 0
    /\ res = NoRes
    /\ usedN = <<>>
    /\ streak = <<>>
    /\ hist = <<>>
    /\ reviewer = NoReviewer
    /\ API_REGISTRY = {}
    /\ last = NoDispatch
    /\ probe = NoProbe
    /\ twin = NoTwin
    /\ twinRes = NoRes
    /\ charged = NoCharge
    /\ threads = NoThreads
    /\ mutex = NoMutex
    /\ race = NoRace
    /\ call = NoCall

Tick(d) ==
    /\ ticks < MaxTicks
    /\ now' = now + d
    /\ ticks' = ticks + 1
    /\ streak' = [k \in DOMAIN streak |-> 0]
    /\ UNCHANGED <<limiter, res, usedN, hist, router, twins, aside>>

Check(identifier, operation, N) ==
    LET r == check(Cur, now, identifier, operation, N)
        key == Key(identifier, operation)
    IN /\ SetLimiter(r.L)
       /\ res' = [key |-> key, N |-> N, ok |-> r.ok, fresh |-> r.fresh, called |-> TRUE]
       /\ Observe(r.L, key, N, r.fresh, TRUE, r.ok)
       /\ UNCHANGED <<clock, router, twins, aside>>

Reset(identifier) ==
    LET L == reset(Cur, identifier)
    IN /\ SetLimiter(L)
       /\ res' = NoRes
       /\ Observe(L, "", 0, FALSE, FALSE, FALSE)
       /\ UNCHANGED <<clock, router, twins, aside>>

RLNext ==
    \/ \E d \in Deltas : Tick(d)
    \/ \E i \in Identifiers, o \in Operations, N \in Rates : Check(i, o, N)
    \/ \E i \in Identifiers \cup {""} : Reset(i)

SpecRL == RLInit /\ [][RLNext]_vars

\* C1: every stored bucket whose key has only ever been checked with one rate N
\* holds between 0 and N tokens
TokenBound ==
    \A k \in DOMAIN buckets : \A N \in Rates :
        usedN[k] = {N} => 0 <= buckets[k][1] /\ buckets[k][1] <= N * TicksPerSec

\* C1 witness: a bucket of rate 2 refilled over a long pause (the cap applied), then charged
TokenBoundWitness ==
    \E k \in DOMAIN buckets :
        /\ usedN[k] = {2}
        /\ call_counts[k] >= 3
        /\ now > CleanupInterval
        /\ buckets[k] = <<2 * TicksPerSec - TicksPerSec, now>>

\* C2: of the consecutive check() calls for a fresh key made at one clock value with one
\* rate N, the n-th returns true exactly when n <= N + 1
Fairness ==
    \A k \in DOMAIN streak :
        (res.called /\ res.key = k /\ streak[k] > 0) => (res.ok <=> streak[k] <= res.N + 1)

\* C2 witness: the (N+2)-th immediate call was just rejected
FairnessWitness ==
    /\ res.called /\ ~res.ok
    /\ res.key \in DOMAIN streak
    /\ streak[res.key] = res.N + 2

\* The step is a check() call (res' describes it); the key it was called for
IsCheck == now' = now /\ res'.called

\* C14: a rejected check() leaves the key's bucket and counter as they were, and
\* get_call_count is the number of admitted calls since the bucket was created, 0 for
\* a key without a bucket
RejectionLeavesKey ==
    /\ [](\A i \in Identifiers, o \in Operations :
            get_call_count(call_counts, i, o)
                = (IF Key(i, o) \in DOMAIN buckets THEN hist[Key(i, o)].admits ELSE 0))
    /\ [][(IsCheck /\ ~res'.ok) =>
              /\ res'.key \in DOMAIN buckets /\ res'.key \in DOMAIN call_counts
              /\ buckets'[res'.key] = buckets[res'.key]
              /\ call_counts'[res'.key] = call_counts[res'.key]]_vars

\* C14 witness: a call was rejected after a refill, the counter at the admitted calls
RejectionLeavesKeyWitness ==
    /\ res.called /\ ~res.ok
    /\ now > 0
    /\ buckets[res.key][2] = now
    /\ call_counts[res.key] = hist[res.key].admits
    /\ call_counts[res.key] > res.N + 1

\* The counter stored for key k, 0 when there is none
CountOf(c, k) == IF k \in DOMAIN c THEN c[k] ELSE 0

\* C15 as claimed: every check() call for a key increments its counter, admitted or not
CountsAttempts ==
    [][IsCheck =>
          CountOf(call_counts', res'.key)
              = (IF res'.fresh THEN 1 ELSE CountOf(call_counts, res'.key) + 1)]_vars

\* C15 amended: the creating call sets the counter to 1, every later admitted call
\* increments it, and a rejected call leaves it unchanged
CountsAdmitted ==
    [][IsCheck =>
          CountOf(call_counts', res'.key)
              = (IF res'.fresh THEN 1
                 ELSE CountOf(call_counts, res'.key)
                      + (IF res'.ok THEN 1 ELSE 0))]_vars

\* C15 witness: a call was rejected and the counter stands at the burst of N + 1
CountsAdmittedWitness ==
    /\ res.called /\ ~res.ok
    /\ streak[res.key] = res.N + 2
    /\ call_counts[res.key] = res.N + 1

\* C16: with one rate N for the key, a check() of an existing key is admitted exactly
\* when min(N, tokens + elapsed * N) >= 1, elapsed counted from the last admitted call;
\* in particular whenever elapsed >= 1/N
RefillAdmits ==
    [][(IsCheck /\ res'.key \in DOMAIN buckets /\ usedN[res'.key] = {res'.N}) =>
          LET k == res'.key
              N == res'.N
              elapsed == now - hist[k].lastAdmit
          IN /\ res'.ok <=> (Min(N * TicksPerSec, buckets[k][1] + elapsed * N) >= TicksPerSec)
             /\ (elapsed * N >= TicksPerSec) => res'.ok]_vars

\* C16 witness: an empty bucket took a call again once 1/N s had passed
RefillAdmitsWitness ==
    /\ res.called /\ res.ok /\ ~res.fresh
    /\ usedN[res.key] = {res.N}
    /\ now * res.N = TicksPerSec
    /\ buckets[res.key] = <<0, now>>
    /\ call_counts[res.key] = res.N + 2

\* C19 as claimed: a bucket created with max_per_second C never holds more than C tokens,
\* and every later refill is bounded by C whatever max_per_second the call passes
CapacityFixed ==
    /\ [](\A k \in DOMAIN buckets : buckets[k][1] <= hist[k].cap * TicksPerSec)
    /\ [][(IsCheck /\ ~res'.fresh) =>
             LET k == res'.key
                 C == hist[k].cap
                 refilled == Min(C * TicksPerSec,
                                 buckets[k][1] + (now - buckets[k][2]) * res'.N)
             IN /\ res'.ok <=> (refilled >= TicksPerSec)
                /\ res'.ok => buckets'[k][1] = refilled - TicksPerSec]_vars

\* C19 amended: every check(id, op, N) bounds its refill by the N of that call, whatever
\* max_per_second created the bucket, and leaves the key with at most N tokens
CapacityPerCall ==
    [][IsCheck =>
          LET k == res'.key
              N == res'.N
          IN /\ buckets'[k][1] <= N * TicksPerSec
             /\ ~res'.fresh =>
                   LET refilled == Min(N * TicksPerSec,
                                       buckets[k][1] + (now - buckets[k][2]) * N)
                   IN /\ res'.ok <=> (refilled >= TicksPerSec)
                      /\ res'.ok => buckets'[k][1] = refilled - TicksPerSec
                      /\ ~res'.ok => buckets'[k] = buckets[k]]_vars

\* C19 witness: a bucket created with rate 2 was emptied by its first later call, made
\* with rate 1
CapacityPerCallWitness ==
    /\ res.called /\ res.ok /\ ~res.fresh /\ res.N = 1
    /\ hist[res.key] = [admits |-> 2, lastAdmit |-> now, cap |-> 2]
    /\ buckets[res.key] = <<0, now>>

----------------------------------------------------------------------------
(* The limiter around its two thresholds: clock steps of a tick, of exactly the       *)
(* cleanup interval and of exactly the stale threshold                                 *)

SweepDeltas == {1, CleanupInterval, StaleThreshold}
SweepRates == {1}

SweepNext ==
    \/ \E d \in SweepDeltas : Tick(d)
    \/ \E i \in Identifiers, o \in Operations, N \in SweepRates : Check(i, o, N)

SpecSweep == RLInit /\ [][SweepNext]_vars

\* The sweep is due at this check()
SweepDue == now - last_cleanup > CleanupInterval

\* Bucket k is stale at this check()
Stale(k) == now - buckets[k][2] > StaleThreshold

\* C17: a check() that sweeps deletes exactly the stale buckets, each with its counter
\* (the called key's own bucket is then created anew); no check() deletes a bucket
\* within the threshold or changes the bucket of another key
StaleEviction ==
    [][IsCheck =>
          /\ DOMAIN call_counts' = DOMAIN buckets'
          /\ \A k \in DOMAIN buckets :
                /\ ~Stale(k) => k \in DOMAIN buckets'
                /\ (SweepDue /\ Stale(k)) =>
                       IF k = res'.key
                       THEN res'.fresh /\ call_counts'[k] = 1
                       ELSE k \notin DOMAIN buckets' /\ k \notin DOMAIN call_counts'
                /\ (k # res'.key /\ k \in DOMAIN buckets') =>
                       buckets'[k] = buckets[k] /\ call_counts'[k] = call_counts[k]]_vars

\* C17 witness: a sweep has just run and a bucket exactly at the threshold is still there
StaleEvictionWitness ==
    /\ res.called /\ last_cleanup = now
    /\ \E k \in DOMAIN buckets : now - buckets[k][2] = StaleThreshold

\* C18: a check() sweeps exactly when more than the cleanup interval has passed since
\* the last sweep, and then sets the cleanup time to now; a check() that does not sweep
\* deletes nothing; two sweeps are more than the interval apart
SweepFrequency ==
    /\ [][IsCheck =>
             IF SweepDue
             THEN last_cleanup' = now
             ELSE /\ last_cleanup' = last_cleanup
                  /\ \A k \in DOMAIN buckets : k \in DOMAIN buckets']_vars
    /\ [][last_cleanup' # last_cleanup =>
             last_cleanup' - last_cleanup > CleanupInterval]_vars

\* C18 witness: a check() made exactly one interval after the last sweep did not sweep,
\* and left a stale bucket in place
SweepFrequencyWitness ==
    /\ res.called /\ buckets[res.key][2] = now
    /\ now - last_cleanup = CleanupInterval
    /\ \E k \in DOMAIN buckets : now - buckets[k][2] > StaleThreshold

----------------------------------------------------------------------------
(* The limiter with its resets recorded: res.key of a reset is the identifier it was   *)
(* given, "" for reset()                                                               *)

ResetDeltas == {1}

ResetObserved(identifier) ==
    LET L == reset(Cur, identifier)
    IN /\ SetLimiter(L)
       /\ res' = [NoRes EXCEPT !.key = identifier]
       /\ Observe(L, "", 0, FALSE, FALSE, FALSE)
       /\ UNCHANGED <<clock, router, twins, aside>>

ResetNext ==
    \/ \E d \in ResetDeltas : Tick(d)
    \/ \E i \in Identifiers, o \in Operations, N \in Rates : Check(i, o, N)
    \/ \E i \in Identifiers \cup {""} : ResetObserved(i)

SpecReset == RLInit /\ [][ResetNext]_vars

\* The step is a reset
IsReset == now' = now /\ ~res'.called

\* C20: reset(identifier) removes the bucket and counter of every key of that
\* identifier and leaves the keys of every other identifier as they were; reset()
\* removes them all
ResetExact ==
    [][IsReset =>
          IF res'.key = ""
          THEN buckets' = <<>> /\ call_counts' = <<>>
          ELSE \A i \in Identifiers, o \in Operations :
                  LET k == Key(i, o)
                  IN IF i = res'.key
                     THEN k \notin DOMAIN buckets' /\ get_call_count(call_counts', i, o) = 0
                     ELSE /\ k \in DOMAIN buckets <=> k \in DOMAIN buckets'
                          /\ k \in DOMAIN buckets => buckets'[k] = buckets[k]
                          /\ get_call_count(call_counts', i, o)
                                = get_call_count(call_counts, i, o)]_vars

----------------------------------------------------------------------------
(* Two limiters side by side.  Both receive the same check() calls for the keys    *)
(* (OtherId, ExtraOp) and (ExtraId, OtherOp); the first one also receives calls    *)
(* for the key (ExtraId, ExtraOp).                                                 *)

ExtraId == "a"
ExtraOp == "c"
OtherId == "b"
OtherOp == "d"
SharedCalls == {<<OtherId, ExtraOp>>, <<ExtraId, OtherOp>>}
IndepRates == {1}
IndepDeltas == {1, StaleThreshold}

IndepTick(d) ==
    /\ ticks < MaxTicks
    /\ now' = now + d
    /\ ticks' = ticks + 1
    /\ UNCHANGED <<limiter, obs, router, twins, aside>>

\* The same call on both limiters
CheckBoth(identifier, operation, N) ==
    \E r1 \in {check(Cur, now, identifier, operation, N)},
       r2 \in {check(twin, now, identifier, operation, N)} :
       /\ SetLimiter(r1.L)
       /\ twin' = r2.L
       /\ res' = [key |-> Key(identifier, operation), N |-> N, ok |-> r1.ok,
                  fresh |-> r1.fresh, called |-> TRUE]
       /\ twinRes' = [key |-> Key(identifier, operation), N |-> N, ok |-> r2.ok,
                      fresh |-> r2.fresh, called |-> TRUE]
       /\ UNCHANGED <<clock, usedN, streak, hist, router, aside>>

\* A call for (ExtraId, ExtraOp) that only the first limiter receives
CheckExtra(N) ==
    \E r1 \in {check(Cur, now, ExtraId, ExtraOp, N)} :
       /\ SetLimiter(r1.L)
       /\ UNCHANGED <<clock, obs, router, twins, aside>>

IndepNext ==
    \/ \E d \in IndepDeltas : IndepTick(d)
    \/ \E c \in SharedCalls, N \in IndepRates : CheckBoth(c[1], c[2], N)
    \/ \E N \in IndepRates : CheckExtra(N)

SpecIndep == RLInit /\ [][IndepNext]_vars

----------------------------------------------------------------------------
(* The router driven by commands from the web view *)

CallbackIds == {"7", "-1", "1\n", "a"}
FunctionNames == {"f"}
Payloads == {"", "[1]", "{bad", AtCap, OverCap}
Commands ==
    {"ankidroidjs:" \o cb \o ":" \o fn \o ":{}" : cb \in CallbackIds, fn \in FunctionNames}
    \cup {"ankidroidjs:7:" \o fn \o ":" \o a : fn \in FunctionNames, a \in Payloads}
    \cup {"ankidroidjs:7:" \o fn : fn \in FunctionNames}
    \cup {"other:command", "ankidroidjs:", "ankidroidjs:unknownFunc"}

\* What the environment does during one call: the registered function's outcome and
\* the web.eval calls (1st, 2nd) that raise
ReturnOk == [kind |-> "return", value |-> 5, exc |-> "", msg |-> "", serializable |-> TRUE]
Scenarios ==
    [fOut : FuncOutcomes, evalFails : {{}}]
    \cup [fOut : {ReturnOk}, evalFails : {{1}, {1, 2}}]
    \cup [fOut : {f \in FuncOutcomes : f.kind = "raise" /\ f.msg = "m1"}, evalFails : {{1}}]

\* The calls of the model: one command under every scenario, one with an invalid
\* callback id under every outcome of the function (no web.eval call is made for it), the
\* others with a function that returns and a web view that accepts the callback
PlainScenario == [fOut |-> ReturnOk, evalFails |-> {}]
Inputs ==
    ({"ankidroidjs:7:f:{}"} \X Scenarios)
    \cup ({"ankidroidjs:a:f:{}"} \X {sc \in Scenarios : sc.evalFails = {}})
    \cup (Commands \X {PlainScenario})

\* A clock step of the router's runs: one second, a full refill
RouterDeltas == {TicksPerSec}

\* args_json as handle_pycmd takes it from the command: the fourth field, "{}" when
\* there is none
ArgsOf(cmd) ==
    LET parts == Split(cmd, ":", 3)
    IN IF Len(parts) > 3 THEN parts[4] ELSE "{}"

\* The command's envelope: "foreign" without the protocol prefix, "short" with fewer
\* than two fields after it, "ok" otherwise
Shape(cmd) ==
    IF ~StartsWith(cmd, "ankidroidjs:") THEN "foreign"
    ELSE IF Find(cmd, ":", Len("ankidroidjs:") + 1) = 0 THEN "short"
    ELSE "ok"

RouterInit ==
    /\ now = 0
    /\ ticks = 0
    /\ buckets = <<>>
    /\ call_counts = <<>>
    /\ last_cleanup = 0
    /\ res = NoRes
    /\ usedN = <<>>
    /\ streak = <<>>
    /\ hist = <<>>
    /\ reviewer \in Reviewers
    /\ API_REGISTRY \in {{}, {"f"}}
    /\ last = NoDispatch
    /\ probe = NoProbe
    /\ twin = NoTwin
    /\ twinRes = NoRes
    /\ charged = NoCharge
    /\ threads = NoThreads
    /\ mutex = NoMutex
    /\ race = NoRace
    /\ call = NoCall

RouterTick(d) ==
    /\ ticks < MaxRouterTicks
    /\ now' = now + d
    /\ ticks' = ticks + 1
    /\ UNCHANGED <<limiter, obs, router, twins, aside>>

\* One handle_pycmd call.  watched: the command and the call are also recorded in probe.
Route(cmd, fOut, evalFails, watched) ==
    \E o \in {handle_pycmd(Cur, API_REGISTRY, now, reviewer, cmd, fOut, evalFails)},
       a \in {ArgsOf(cmd)} :
       /\ SetLimiter(o.L)
       /\ last' = [dispatched |-> TRUE, dropped |-> o.dropped,
                   callback_id |-> o.callback_id, function_name |-> o.function_name,
                   args_len |-> Len(a),
                   checked |-> o.checked, admitted |-> o.admitted, parsed |-> o.parsed,
                   invoked |-> o.invoked, fcall |-> o.fcall, caught |-> o.caught,
                   evals |-> o.evals,
                   raised |-> o.raised]
       /\ probe' = IF watched
                   THEN [shape |-> Shape(cmd),
                         args_bad |-> (a # "" /\ ~JsonLoads(a).ok),
                         args_isdict |-> (a = "" \/ JsonLoads(a).isdict),
                         returned |-> IF o.fcall = "return" THEN fOut.value ELSE 0,
                         callmode |-> o.callmode]
                   ELSE probe
       /\ UNCHANGED <<clock, obs, reviewer, API_REGISTRY, twins, aside>>

Dispatch(cmd, fOut, evalFails) == Route(cmd, fOut, evalFails, FALSE)

RouterNext ==
    \/ \E d \in RouterDeltas : RouterTick(d)
    \/ \E in \in Inputs : Dispatch(in[1], in[2].fOut, in[2].evalFails)

Spec == RouterInit /\ [][RouterNext]_vars

\* The router at one clock value, every command recorded as it was sent.  The function
\* may also return a second value.
ReturnOther == [ReturnOk EXCEPT !.value = 6]
PipeInputs == Inputs \cup {<<"ankidroidjs:7:f:{}", [fOut |-> ReturnOther, evalFails |-> {}]>>}

Submit(cmd, fOut, evalFails) == Route(cmd, fOut, evalFails, TRUE)

PipeNext == \E in \in PipeInputs : Submit(in[1], in[2].fOut, in[2].evalFails)

SpecPipe == RouterInit /\ [][PipeNext]_vars


----------------------------------------------------------------------------
(* Properties of the router *)

\* The last call passed the envelope checks
Routed == last.dispatched /\ ~last.dropped

\* The web view can be reached
WebPresent == reviewer.present /\ reviewer.web

\* s is an optionally negative decimal integer, and nothing else
IsDecimalInteger(s) == AllDigits(IF StartsWith(s, "-") THEN Drop(s, 2) ELSE s)

\* The last call handed exactly the response r to _send_callback, which passed it to
\* web.eval once when the callback id passed its check and a web view exists
Yields(r) ==
    IF MatchesCallbackId(last.callback_id) /\ WebPresent
    THEN Len(last.evals) = 1 /\ last.evals[1].response = r
    ELSE last.evals = <<>>

\* The last call was rejected by RateLimiter.check
Rejected == Routed /\ last.checked /\ ~last.admitted

\* C4: a rejected command is answered with exactly the rate-limit error, its function is
\* not invoked, and a later refill of the bucket invokes nothing for it
RateLimitDenied ==
    /\ [](Rejected => /\ Yields(ErrorResponse("Rate limit exceeded"))
                      /\ last.invoked = 0
                      /\ ~last.parsed)
    /\ [][Rejected /\ now' # now => last' = last]_vars

\* C4 witness: a rejected command whose bucket has since refilled
RateLimitDeniedWitness ==
    /\ Rejected
    /\ Len(last.evals) = 1
    /\ last.function_name \in API_REGISTRY
    /\ \E k \in DOMAIN buckets : now - buckets[k][2] >= TicksPerSec

\* C5: no exception leaves handle_pycmd
NeverRaises == last.dispatched => last.raised = ""

\* C6: a callback id that is not an optionally negative decimal integer gets no web.eval
CallbackIdValidation ==
    (Routed /\ ~IsDecimalInteger(last.callback_id)) => last.evals = <<>>

OperationRaised == Routed /\ last.caught # NoExc /\ (last.invoked = 0 \/ last.fcall = "raise")

\* C8: the response to an exception of kind K is "Operation failed: K" whatever its message
ErrorKindOnly ==
    OperationRaised =>
        Yields(ErrorResponse("Operation failed: " \o last.caught.kind))

\* C8 witness: a function's ValueError with the second message was answered
ErrorKindOnlyWitness ==
    /\ OperationRaised
    /\ last.caught = Exc("ValueError", "m2")
    /\ Len(last.evals) = 1

\* C9: an admitted command for an unregistered name is answered with the unknown-function
\* error naming it, and nothing is parsed or invoked
UnknownOperation ==
    (Routed /\ last.admitted /\ last.function_name \notin API_REGISTRY) =>
        /\ Yields(ErrorResponse("Unknown API function: " \o last.function_name))
        /\ last.invoked = 0
        /\ ~last.parsed

\* C9 witness: an unknown-function error was delivered
UnknownOperationWitness ==
    /\ Routed /\ last.admitted
    /\ last.function_name \notin API_REGISTRY
    /\ Len(last.evals) = 1

\* The admitted command's payload is longer than the cap
Oversized == Routed /\ last.admitted /\ last.args_len > MAX_JSON_PAYLOAD_BYTES

----------------------------------------------------------------------------
(* Properties of the router's pipeline, over the commands as they were sent *)

\* The last command had the protocol prefix and two fields after it
WellFormed == last.dispatched /\ probe.shape = "ok"

\* The stages the last command would fail
FailsRate == last.checked /\ ~last.admitted
FailsSize == last.args_len > MAX_JSON_PAYLOAD_BYTES
FailsParse == probe.args_bad
FailsLookup == last.function_name \notin API_REGISTRY

Callable == WellFormed /\ ~FailsRate /\ ~FailsLookup /\ ~FailsSize /\ ~FailsParse

\* C12: a command that passes every stage has its function called once, with keyword
\* expansion exactly when its args are a JSON object; when the function returns a
\* serializable v and the delivery succeeds, the response is {success: true, result: v}
SuccessfulDispatch ==
    Callable =>
        /\ last.invoked = 1
        /\ probe.callmode = (IF probe.args_isdict THEN "kwargs" ELSE "positional")
        /\ (last.fcall = "return" /\ last.caught = NoExc) =>
               Yields(SuccessResponse(probe.returned))

\* C12 witness: a JSON array was passed as one positional argument and the value the
\* function returned was delivered
SuccessfulDispatchWitness ==
    /\ Callable /\ WebPresent
    /\ ~probe.args_isdict /\ probe.callmode = "positional"
    /\ Len(last.evals) = 1 /\ last.evals[1].response = SuccessResponse(5)

\* C13: a command without the prefix or with fewer than two fields after it delivers
\* nothing, invokes nothing and leaves the limiter's buckets, counters and cleanup
\* timestamp as they were
SilentDrop ==
    /\ [](last.dispatched /\ probe.shape \in {"foreign", "short"} =>
             /\ last.evals = <<>>
             /\ last.invoked = 0
             /\ ~last.checked /\ ~last.parsed
             /\ last.raised = "")
    /\ [][probe'.shape \in {"foreign", "short"} => UNCHANGED limiter]_vars

\* C13 witness: a command with one field after the prefix was dropped while buckets exist
SilentDropWitness ==
    /\ last.dispatched /\ probe.shape = "short"
    /\ last.evals = <<>>
    /\ buckets # <<>>

----------------------------------------------------------------------------
(* The router during a burst at one clock value, each command handled under the        *)
(* reviewer of the card displayed at that moment                                       *)

\* The reviewers of the burst: one without a card, one whose card's template() raises,
\* two that display cards of one question template, one that displays another template
NoCardReviewer == [present |-> TRUE, card |-> "none", qfmt |-> "", web |-> TRUE]
CardReviewers ==
    {NoCardReviewer,
     [present |-> TRUE, card |-> "error", qfmt |-> "", web |-> TRUE],
     [present |-> TRUE, card |-> "ok", qfmt |-> "{{Front}}", web |-> TRUE],
     [present |-> TRUE, card |-> "ok", qfmt |-> "{{Front}}", web |-> FALSE],
     [present |-> TRUE, card |-> "ok", qfmt |-> "{{Back}}", web |-> TRUE]}

\* The functions the burst's commands name; "g" is not registered
BurstFunctions == {"f", "g"}
BurstCalls ==
    (CardReviewers \X {"f"})
    \cup ({r \in CardReviewers : r.qfmt = "{{Front}}" /\ r.web} \X {"g"})

\* The caller of a command: the question template text of the displayed card, or no
\* template at all
Caller(rev) ==
    IF rev.present /\ rev.card = "ok"
    THEN [template |-> TRUE, text |-> rev.qfmt]
    ELSE [template |-> FALSE, text |-> ""]

\* The admitted commands recorded for the pair p
Charged(c, p) == IF p \in DOMAIN c.count THEN c.count[p] ELSE 0

BurstInit ==
    /\ now = 0
    /\ ticks = 0
    /\ buckets = <<>>
    /\ call_counts = <<>>
    /\ last_cleanup = 0
    /\ res = NoRes
    /\ usedN = <<>>
    /\ streak = <<>>
    /\ hist = <<>>
    /\ reviewer = NoReviewer
    /\ API_REGISTRY = {"f"}
    /\ last = NoDispatch
    /\ probe = NoProbe
    /\ twin = NoTwin
    /\ twinRes = NoRes
    /\ charged = NoCharge
    /\ threads = NoThreads
    /\ mutex = NoMutex
    /\ race = NoRace
    /\ call = NoCall

\* handle_pycmd(rev, "ankidroidjs:7:<fn>:{}")
SubmitUnder(rev, fn) ==
    \E o \in {handle_pycmd(Cur, API_REGISTRY, now, rev, "ankidroidjs:7:" \o fn \o ":{}",
                           ReturnOk, {})} :
       /\ SetLimiter(o.L)
       /\ reviewer' = rev
       /\ last' = [dispatched |-> TRUE, dropped |-> o.dropped,
                   callback_id |-> o.callback_id, function_name |-> o.function_name,
                   args_len |-> 2,
                   checked |-> o.checked, admitted |-> o.admitted, parsed |-> o.parsed,
                   invoked |-> o.invoked, fcall |-> o.fcall, caught |-> o.caught,
                   evals |-> o.evals,
                   raised |-> o.raised]
       /\ charged' = [count |-> IF o.admitted
                                THEN Put(charged.count, <<Caller(rev), fn>>,
                                         Charged(charged, <<Caller(rev), fn>>) + 1)
                                ELSE charged.count,
                      who |-> <<Caller(rev), fn>>]
       /\ UNCHANGED <<clock, obs, API_REGISTRY, probe, twins, threads, mutex, race, call>>

BurstNext == \E c \in BurstCalls : SubmitUnder(c[1], c[2])

SpecBurst == BurstInit /\ [][BurstNext]_vars

\* The commands one bucket admits at one clock value: its N tokens and the creating call
Budget == DEFAULT_API_RATE_LIMIT_PER_SECOND + 1

HexDigits == Digits \cup {"a", "b", "c", "d", "e", "f"}

\* The identifier a caller is limited under
Fingerprint(c) == IF c.template THEN TemplateHash16[c.text] ELSE "unknown"

\* The bucket key of the pair p
PairKey(p) == Key(Fingerprint(p[1]), p[2])

\* C21: every admitted command is charged to the bucket of its (template fingerprint,
\* function) pair and to no other: each pair's bucket holds the budget less that pair's
\* own admitted commands, pairs that differ in fingerprint or function have different
\* buckets, and a command is rejected exactly when its own pair has used up its budget
PerTemplateLimiting ==
    /\ [](\A p \in DOMAIN charged.count :
            /\ p[1].template =>
                  /\ Len(Fingerprint(p[1])) = 16
                  /\ \A i \in 1..16 : SubSeq(Fingerprint(p[1]), i, i) \in HexDigits
            /\ PairKey(p) \in DOMAIN buckets
            /\ call_counts[PairKey(p)] = charged.count[p]
            /\ buckets[PairKey(p)][1] = (Budget - charged.count[p]) * TicksPerSec
            /\ \A q \in DOMAIN charged.count : q # p => PairKey(q) # PairKey(p))
    /\ [](DOMAIN buckets = {PairKey(p) : p \in DOMAIN charged.count})
    /\ [][last'.admitted <=> Charged(charged, charged'.who) < Budget]_vars

\* C21 witness: a command under the second reviewer of a template was rejected after the
\* template's budget for "f" was used up, while the same template's "g", another template
\* and the unknown caller still have budget
PerTemplateLimitingWitness ==
    /\ last.dispatched /\ ~last.admitted /\ ~reviewer.web
    /\ charged.who = <<[template |-> TRUE, text |-> "{{Front}}"], "f">>
    /\ Charged(charged, charged.who) = Budget
    /\ Charged(charged, <<[template |-> TRUE, text |-> "{{Front}}"], "g">>) \in 1..(Budget - 1)
    /\ Charged(charged, <<[template |-> TRUE, text |-> "{{Back}}"], "f">>) \in 1..(Budget - 1)
    /\ Charged(charged, <<[template |-> FALSE, text |-> ""], "f">>) \in 1..(Budget - 1)

----------------------------------------------------------------------------
(* check() called by two concurrent callers.  A call is the sequence of its reads and  *)
(* writes of the shared attributes: the clock, the sweep, the lookup of the key, the   *)
(* read of the bucket, the update.  With the mutex enabled a call holds it from its    *)
(* first step to its return.                                                           *)

ThreadIdentifiers == {"a"}
ThreadRates == {1}
ThreadDeltas == {TicksPerSec, StaleThreshold + 1}

\* A call that enters whether or not another one is in progress
CanEnterAlways(m) == TRUE

\* A call may enter: there is no mutex, or nobody holds it
CanEnter(m) == m.enabled => m.holder = 0

Acquire(m, t) == IF m.enabled THEN [m EXCEPT !.holder = t] ELSE m
Release(m) == [m EXCEPT !.holder = 0]

\* now = time.time(), with the arguments of the call
Begin(t, identifier, operation, N) ==
    /\ threads[t].pc = "idle"
    /\ CanEnter(mutex)
    /\ mutex' = Acquire(mutex, t)
    /\ threads' = [threads EXCEPT ![t] = [Idle EXCEPT !.pc = "sweep",
                                                      !.identifier = identifier,
                                                      !.operation = operation,
                                                      !.key = Key(identifier, operation),
                                                      !.N = N, !.now = now, !.start = Cur]]
    /\ UNCHANGED <<clock, limiter, obs, router, twins, charged, race, call>>

\* if now - cls._last_cleanup > cls._CLEANUP_INTERVAL: cleanup, _last_cleanup = now
SweepStep(t) ==
    /\ threads[t].pc = "sweep"
    /\ SetLimiter(Sweep(Cur, threads[t].now))
    /\ threads' = [threads EXCEPT ![t].pc = "lookup"]
    /\ UNCHANGED <<clock, obs, router, twins, charged, mutex, race, call>>

\* if key not in cls._buckets: create the bucket and the counter, return True
Lookup(t) ==
    LET my == threads[t]
    IN /\ my.pc = "lookup"
       /\ IF my.key \notin DOMAIN buckets
          THEN /\ buckets' = Put(buckets, my.key, <<FreshTokens(my.N), my.now>>)
               /\ call_counts' = Put(call_counts, my.key, 1)
               /\ threads' = [threads EXCEPT ![t] = Idle]
               /\ mutex' = Release(mutex)
               /\ race' = [race EXCEPT !.admits = Put(@, my.key, 1)]
          ELSE /\ threads' = [threads EXCEPT ![t].pc = "read"]
               /\ UNCHANGED <<buckets, call_counts, mutex, race>>
       /\ UNCHANGED <<clock, last_cleanup, obs, router, twins, charged, call>>

\* tokens, last_refill = cls._buckets[key]: KeyError when the bucket is gone
ReadBucket(t) ==
    LET my == threads[t]
    IN /\ my.pc = "read"
       /\ IF my.key \notin DOMAIN buckets
          THEN /\ threads' = [threads EXCEPT ![t] = Idle]
               /\ mutex' = Release(mutex)
               /\ race' = [race EXCEPT !.keyError = TRUE]
          ELSE /\ threads' = [threads EXCEPT ![t].pc = "update",
                                             ![t].tokens = buckets[my.key][1],
                                             ![t].last_refill = buckets[my.key][2]]
               /\ UNCHANGED <<mutex, race>>
       /\ UNCHANGED <<clock, limiter, obs, router, twins, charged, call>>

\* The refill from the values read, then the write of the bucket and of the counter
\* (a defaultdict: a missing counter starts at 0), or the rejection
Update(t) ==
    LET my == threads[t]
        tokens == Refill(my.tokens, my.now - my.last_refill, my.N)
    IN /\ my.pc = "update"
       /\ IF tokens >= TicksPerSec
          THEN /\ buckets' = Put(buckets, my.key, <<tokens - TicksPerSec, my.now>>)
               /\ call_counts' = Put(call_counts, my.key, CountOf(call_counts, my.key) + 1)
               /\ race' = [race EXCEPT !.admits = Put(@, my.key, CountOf(@, my.key) + 1)]
          ELSE UNCHANGED <<buckets, call_counts, race>>
       /\ threads' = [threads EXCEPT ![t] = Idle]
       /\ mutex' = Release(mutex)
       /\ UNCHANGED <<clock, last_cleanup, obs, router, twins, charged, call>>

\* The clock moves on; the admitted calls are counted per clock value
ThreadTick(d) ==
    /\ ticks < MaxTicks
    /\ now' = now + d
    /\ ticks' = ticks + 1
    /\ race' = [race EXCEPT !.admits = [k \in DOMAIN @ |-> 0]]
    /\ UNCHANGED <<limiter, obs, router, twins, charged, threads, mutex, call>>

ThreadsInit ==
    /\ now = 0
    /\ ticks = 0
    /\ buckets = <<>>
    /\ call_counts = <<>>
    /\ last_cleanup = 0
    /\ res = NoRes
    /\ usedN = <<>>
    /\ streak = <<>>
    /\ hist = <<>>
    /\ reviewer = NoReviewer
    /\ API_REGISTRY = {}
    /\ last = NoDispatch
    /\ probe = NoProbe
    /\ twin = NoTwin
    /\ twinRes = NoRes
    /\ charged = NoCharge
    /\ threads = NoThreads
    /\ mutex \in {[enabled |-> e, holder |-> 0] : e \in BOOLEAN}
    /\ race = NoRace
    /\ call = NoCall

ThreadsNext ==
    \/ \E d \in ThreadDeltas : ThreadTick(d)
    \/ \E t \in Threads, i \in ThreadIdentifiers, o \in Operations, N \in ThreadRates :
          Begin(t, i, o, N)
    \/ \E t \in Threads : SweepStep(t)
    \/ \E t \in Threads : Lookup(t)
    \/ \E t \in Threads : ReadBucket(t)
    \/ \E t \in Threads : Update(t)

SpecThreads == ThreadsInit /\ [][ThreadsNext]_vars

\* Thread t returns in this step
Returns(t) == threads[t].pc # "idle" /\ threads'[t].pc = "idle"

\* C22: when every check() holds the mutex from its first step to its return, no key
\* has more than N + 1 calls admitted at one clock value since its bucket was created,
\* no call reads a bucket that is gone, and every call leaves the limiter as one
\* check() on the state it started from does
SerializedBound ==
    /\ [](mutex.enabled =>
            /\ ~race.keyError
            /\ \A k \in DOMAIN race.admits, N \in ThreadRates : race.admits[k] <= N + 1)
    /\ [][\A t \in Threads :
            (mutex.enabled /\ Returns(t)) =>
                Limiter(buckets', call_counts', last_cleanup')
                    = check(threads[t].start, threads[t].now, threads[t].identifier,
                            threads[t].operation, threads[t].N).L]_vars

\* C22 witness: without the mutex a call has read a bucket the sweep of another call had
\* deleted, and a key has more than N + 1 calls admitted at one clock value
SerializedBoundWitness ==
    /\ ~mutex.enabled
    /\ race.keyError
    /\ \E k \in DOMAIN race.admits : \A N \in ThreadRates : race.admits[k] > N + 1

----------------------------------------------------------------------------
(* InputValidator.  A str is the sequence of its code points.                          *)

\* Bounds of the text inputs
MaxLen == 3

\* The code points of the texts: NUL, tab, newline, carriage return, space, '<', 'a'
CodePoints == {0, 9, 10, 13, 32, 60, 97}

RECURSIVE SeqsUpTo(_, _)
SeqsUpTo(S, n) ==
    IF n = 0 THEN {<<>>}
    ELSE LET shorter == SeqsUpTo(S, n - 1)
         IN shorter \cup {Append(t, c) : t \in {x \in shorter : Len(x) = n - 1}, c \in S}

Texts == SeqsUpTo(CodePoints, MaxLen)

\* str.isspace(), which is also what \s matches in a str pattern (up to U+00FF)
Whitespace == {9, 10, 11, 12, 13, 28, 29, 30, 31, 32, 133, 160}

\* \w in a str pattern, among the ASCII code points
WordChars == (48..57) \cup (65..90) \cup {95} \cup (97..122)

\* . , ! ? ; : - ' and the four CJK marks of the default pattern
TextPunctuation == {46, 44, 33, 63, 59, 58, 45, 39, 12300, 12301, 12290, 12289}

\* re.match(r'^[\w\s.,!?;:\-\'...]+$', text, re.UNICODE | re.DOTALL): one or more
\* characters of the class up to the end (the class contains the newline '$' may precede)
MatchesTextPattern(text) ==
    /\ Len(text) >= 1
    /\ \A i \in 1..Len(text) : text[i] \in WordChars \cup Whitespace \cup TextPunctuation

\* text.strip()
Strip(text) ==
    LET inner == {i \in 1..Len(text) : text[i] \notin Whitespace}
    IN IF inner = {} THEN <<>>
       ELSE SubSeq(text, CHOOSE i \in inner : \A j \in inner : i <= j,
                         CHOOSE i \in inner : \A j \in inner : i >= j)

\* A removal of control characters that spares the carriage return as well
StripControlKeepingCR(text, allow_newlines) ==
    LET Kept(c) == IF allow_newlines THEN c >= 32 \/ c \in {10, 9, 13}
                   ELSE c >= 32 /\ c \notin {10, 13}
    IN SelectSeq(text, Kept)

\* ''.join(char for char in text if ord(char) >= 32 or char in '\n\t'), or with
\* "ord(char) >= 32 and char not in '\n\r'" when newlines are not allowed
StripControl(text, allow_newlines) ==
    LET Kept(c) == IF allow_newlines THEN c >= 32 \/ c \in {10, 9}
                   ELSE c >= 32 /\ c \notin {10, 13}
    IN SelectSeq(text, Kept)

Returned(v) == [ok |-> TRUE, value |-> v, error |-> ""]
Raised(e) == [ok |-> FALSE, value |-> <<>>, error |-> e]

\* A validate_text that bounds the length of the stripped text
validate_text_length_after_strip(text, max_length, allow_newlines) ==
    LET stripped == StripControl(text, allow_newlines)
    IN IF Len(stripped) > max_length THEN Raised("ValueError")
       ELSE IF ~MatchesTextPattern(stripped) THEN Raised("ValueError")
       ELSE Returned(Strip(stripped))

\* InputValidator.validate_text(text, max_length, allow_newlines=allow_newlines) with the
\* default pattern, for a str
validate_text(text, max_length, allow_newlines) ==
    IF Len(text) > max_length THEN Raised("ValueError")
    ELSE LET stripped == StripControl(text, allow_newlines)
         IN IF ~MatchesTextPattern(stripped) THEN Raised("ValueError")
            ELSE Returned(Strip(stripped))

\* Every variable but call, and their values while only validators are called
others == <<clock, limiter, obs, router, twins, charged, threads, mutex, race>>
Quiet ==
    /\ now = 0
    /\ ticks = 0
    /\ buckets = <<>>
    /\ call_counts = <<>>
    /\ last_cleanup = 0
    /\ res = NoRes
    /\ usedN = <<>>
    /\ streak = <<>>
    /\ hist = <<>>
    /\ reviewer = NoReviewer
    /\ API_REGISTRY = {}
    /\ last = NoDispatch
    /\ probe = NoProbe
    /\ twin = NoTwin
    /\ twinRes = NoRes
    /\ charged = NoCharge
    /\ threads = NoThreads
    /\ mutex = NoMutex
    /\ race = NoRace

NoOut == Raised("")

\* The text, max_length and allow_newlines a caller is about to pass
TextInit ==
    /\ Quiet
    /\ call \in [op : {"input"}, text : Texts, max_length : 0..MaxLen,
                 allow_newlines : BOOLEAN, out : {NoOut}, again : {NoOut}]

\* out = validate_text(text, max_length, allow_newlines=allow_newlines)
ValidateText ==
    /\ call.op = "input"
    /\ call' = [call EXCEPT !.op = "validated",
                            !.out = validate_text(call.text, call.max_length,
                                                  call.allow_newlines)]
    /\ UNCHANGED others

\* again = validate_text(out, max_length, allow_newlines=allow_newlines)
ValidateTextAgain ==
    /\ call.op = "validated"
    /\ call.out.ok
    /\ call' = [call EXCEPT !.op = "revalidated",
                            !.again = validate_text(call.out.value, call.max_length,
                                                    call.allow_newlines)]
    /\ UNCHANGED others

TextNext == ValidateText \/ ValidateTextAgain

SpecText == TextInit /\ [][TextNext]_vars

\* C23: validating the result of a successful validate_text succeeds and returns it
\* unchanged
TextIdempotence ==
    call.op = "revalidated" => call.again = call.out

\* The code points of text that are neither control characters nor whitespace, in order
Visible(text) ==
    LET Seen(c) == c >= 32 /\ c \notin Whitespace
    IN SelectSeq(text, Seen)

\* C24: validate_text raises exactly when the raw text is longer than max_length or the
\* text without its control characters fails the pattern, and then a ValueError; the
\* result of a success is that text trimmed, with every visible character of the input
TextLengthInvariant ==
    call.op = "validated" =>
        LET stripped == StripControl(call.text, call.allow_newlines)
        IN /\ ~call.out.ok <=>
                  (Len(call.text) > call.max_length \/ ~MatchesTextPattern(stripped))
           /\ ~call.out.ok => call.out.error = "ValueError"
           /\ call.out.ok =>
                  /\ call.out.value = Strip(stripped)
                  /\ Visible(call.out.value) = Visible(call.text)

\* C24 witness: a text one longer than max_length was refused although it is within
\* max_length, and valid, once its control character is removed
TextLengthInvariantWitness ==
    /\ call.op = "validated" /\ ~call.out.ok
    /\ Len(call.text) = call.max_length + 1
    /\ Len(StripControl(call.text, call.allow_newlines)) = call.max_length
    /\ MatchesTextPattern(StripControl(call.text, call.allow_newlines))

\* C25: the result of a successful validate_text has no code point below 32 other than
\* newline and tab, and neither newline nor carriage return when newlines are not allowed
ControlCharacterRemoval ==
    (call.op = "validated" /\ call.out.ok) =>
        \A i \in 1..Len(call.out.value) :
            /\ call.out.value[i] >= 32 \/ call.out.value[i] \in {10, 9}
            /\ ~call.allow_newlines => call.out.value[i] \notin {10, 13}

\* C25 witness: a carriage return between two other characters was removed although
\* newlines are allowed
ControlCharacterRemovalWitness ==
    /\ call.op = "validated" /\ call.out.ok /\ call.allow_newlines
    /\ Len(call.text) = 3 /\ call.text[2] = 13
    /\ call.out.value = <<call.text[1], call.text[3]>>

----------------------------------------------------------------------------
(* InputValidator.validate_integer *)

\* Bound of the integer inputs: values and limits lie in -MaxInt..MaxInt
MaxInt == 2

\* The values a caller can pass: int, bool, float (n is the value in tenths), the floats
\* inf and nan, str (s is the text), None
Value(type, n, str) == [type |-> type, n |-> n, s |-> str]
Values ==
    {Value("int", n, "") : n \in -MaxInt..MaxInt}
    \cup {Value("bool", n, "") : n \in {0, 1}}
    \cup {Value("float", n, "") : n \in {-17, -10, 0, 10, 17}}
    \cup {Value("inf", 0, ""), Value("nan", 0, ""), Value("None", 0, "")}
    \cup {Value("str", 0, str) : str \in {"1", "-1", "12", "1.7", "x", ""}}

\* int(x) of a float: the fraction is dropped, towards zero
Truncate(tenths) == IF tenths >= 0 THEN tenths \div 10 ELSE -((-tenths) \div 10)

\* The number a string of decimal digits denotes
RECURSIVE Decimal(_)
Decimal(str) ==
    IF str = "" THEN 0
    ELSE Decimal(SubSeq(str, 1, Len(str) - 1)) * 10
         + (Find("0123456789", SubSeq(str, Len(str), Len(str)), 1) - 1)

\* int(value): the integer, or the exception int() raises
ToInt(value) ==
    IF value.type \in {"int", "bool"} THEN Returned(value.n)
    ELSE IF value.type = "float" THEN Returned(Truncate(value.n))
    ELSE IF value.type = "inf" THEN Raised("OverflowError")
    ELSE IF value.type = "nan" THEN Raised("ValueError")
    ELSE IF value.type = "None" THEN Raised("TypeError")
    ELSE LET body == IF StartsWith(value.s, "-") THEN Drop(value.s, 2) ELSE value.s
         IN IF AllDigits(body)
            THEN Returned(IF StartsWith(value.s, "-") THEN -Decimal(body) ELSE Decimal(body))
            ELSE Raised("ValueError")

\* InputValidator.validate_integer(value, min_val, max_val)
validate_integer(value, min_val, max_val) ==
    LET coerced == ToInt(value)
    IN IF ~coerced.ok
       THEN (IF coerced.error \in {"TypeError", "ValueError"} THEN Raised("TypeError")
             ELSE coerced)
       ELSE IF ~(min_val <= coerced.value /\ coerced.value <= max_val)
            THEN Raised("ValueError")
            ELSE coerced

IntegerInit ==
    /\ Quiet
    /\ call \in [op : {"input"}, value : Values, min_val : -MaxInt..MaxInt,
                 max_val : -MaxInt..MaxInt, out : {NoOut}]

\* out = validate_integer(value, min_val, max_val)
ValidateInteger ==
    /\ call.op = "input"
    /\ call' = [call EXCEPT !.op = "validated",
                            !.out = validate_integer(call.value, call.min_val, call.max_val)]
    /\ UNCHANGED others

SpecInteger == IntegerInit /\ [][ValidateInteger]_vars

\* The values that denote an integer: an int or bool, a finite float, a decimal numeral
Coercible(value) ==
    \/ value.type \in {"int", "bool", "float"}
    \/ value.type = "str" /\ value.s \in {"1", "-1", "12"}

\* C26: validate_integer returns an integer within [min_val, max_val] or raises, a
\* TypeError exactly for a value that is not coercible and a ValueError exactly for a
\* coerced value outside the range; an int within the range is returned as it is
IntegerRange ==
    call.op = "validated" =>
        /\ call.out.ok => call.min_val <= call.out.value /\ call.out.value <= call.max_val
        /\ ~call.out.ok => call.out.error \in {"TypeError", "ValueError"}
        /\ call.out.error = "TypeError" <=> ~Coercible(call.value)
        /\ call.value.type = "int" =>
              IF call.min_val <= call.value.n /\ call.value.n <= call.max_val
              THEN call.out = Returned(call.value.n)
              ELSE call.out = Raised("ValueError")

----------------------------------------------------------------------------
(* InputValidator.validate_filename *)

\* Bound of the filename inputs
MaxNameLen == 4

\* The code points of the names: newline, '-', '.', '/', '\', 'a'
NameCodePoints == {10, 45, 46, 47, 92, 97}
Names == SeqsUpTo(NameCodePoints, MaxNameLen)

\* sub in text
Contains(text, sub) ==
    \E i \in 1..(Len(text) - Len(sub) + 1) : SubSeq(text, i, i + Len(sub) - 1) = sub

\* What '$' accepts: the end of the text, or a newline that ends the text
AtEnd(text) == text = <<>> \/ text = <<10>>

\* A pattern whose extension may contain dots
MatchesFilenamePatternDotted(name) ==
    \E d \in 2..Len(name), e \in 3..Len(name) :
        /\ d < e
        /\ \A i \in 1..(d - 1) : name[i] \in WordChars \cup {45}
        /\ name[d] = 46
        /\ \A i \in (d + 1)..e : name[i] \in WordChars \cup {46}
        /\ AtEnd(SubSeq(name, e + 1, Len(name)))

\* _FILENAME_PATTERN.match(name) for r'^[\w\-]+\.\w+$': word characters or dashes up to
\* position d - 1, a dot at d, word characters up to e, then '$'
MatchesFilenamePattern(name) ==
    \E d \in 2..Len(name), e \in 3..Len(name) :
        /\ d < e
        /\ \A i \in 1..(d - 1) : name[i] \in WordChars \cup {45}
        /\ name[d] = 46
        /\ \A i \in (d + 1)..e : name[i] \in WordChars
        /\ AtEnd(SubSeq(name, e + 1, Len(name)))

\* '..' in filename or '/' in filename or '\\' in filename
HasTraversal(name) ==
    Contains(name, <<46, 46>>) \/ Contains(name, <<47>>) \/ Contains(name, <<92>>)

\* InputValidator.validate_filename(filename) for a str; fired names the check that raised
validate_filename(filename) ==
    IF ~MatchesFilenamePattern(filename)
    THEN [out |-> Raised("ValueError"), fired |-> "pattern"]
    ELSE IF HasTraversal(filename)
    THEN [out |-> Raised("ValueError"), fired |-> "traversal"]
    ELSE [out |-> Returned(filename), fired |-> "none"]

FilenameInit ==
    /\ Quiet
    /\ call \in [op : {"input"}, filename : Names, out : {NoOut}, fired : {"none"}]

\* out = validate_filename(filename)
ValidateFilename ==
    /\ call.op = "input"
    /\ \E r \in {validate_filename(call.filename)} :
          call' = [call EXCEPT !.op = "validated", !.out = r.out, !.fired = r.fired]
    /\ UNCHANGED others

SpecFilename == FilenameInit /\ [][ValidateFilename]_vars

\* C27: a filename that contains "..", "/" or "\" is refused with a ValueError, and
\* always by the pattern: the traversal check after it never raises
PathTraversalRejection ==
    call.op = "validated" =>
        /\ (\E i \in 1..Len(call.filename) :
                \/ call.filename[i] \in {47, 92}
                \/ i < Len(call.filename) /\ call.filename[i] = 46 /\ call.filename[i + 1] = 46)
               => call.out = Raised("ValueError")
        /\ call.fired # "traversal"

\* C27 witness: a name with two consecutive dots between a stem and an extension was
\* refused
PathTraversalRejectionWitness ==
    /\ call.op = "validated"
    /\ call.filename = <<97, 46, 46, 97>>
    /\ call.out = Raised("ValueError")

----------------------------------------------------------------------------
(* InputValidator.validate_tag *)

\* The code points of the tags: newline, space, '-', '<', 'a'
TagCodePoints == {10, 32, 45, 60, 97}
Tags == SeqsUpTo(TagCodePoints, MaxNameLen)

\* _TAG_PATTERN.match(tag) for r'^[\w\-]+$'
MatchesTagPattern(tag) ==
    \E e \in 1..Len(tag) :
        /\ \A i \in 1..e : tag[i] \in WordChars \cup {45}
        /\ AtEnd(SubSeq(tag, e + 1, Len(tag)))

\* A replacement by dashes
ReplaceSpacesByDashes(tag) == [i \in 1..Len(tag) |-> IF tag[i] = 32 THEN 45 ELSE tag[i]]

\* tag.replace(' ', '_')
ReplaceSpaces(tag) == [i \in 1..Len(tag) |-> IF tag[i] = 32 THEN 95 ELSE tag[i]]

\* InputValidator.validate_tag(tag, max_length) for a str
validate_tag(tag, max_length) ==
    LET trimmed == Strip(tag)
    IN IF Len(trimmed) > max_length THEN Raised("ValueError")
       ELSE IF trimmed = <<>> THEN Raised("ValueError")
       ELSE IF ~MatchesTagPattern(ReplaceSpaces(trimmed)) THEN Raised("ValueError")
       ELSE Returned(ReplaceSpaces(trimmed))

TagInit ==
    /\ Quiet
    /\ call \in [op : {"input"}, tag : Tags, max_length : 0..MaxNameLen, out : {NoOut}]

\* out = validate_tag(tag, max_length)
ValidateTag ==
    /\ call.op = "input"
    /\ call' = [call EXCEPT !.op = "validated",
                            !.out = validate_tag(call.tag, call.max_length)]
    /\ UNCHANGED others

SpecTag == TagInit /\ [][ValidateTag]_vars

\* C28: the result of a successful validate_tag is the trimmed tag with every space
\* turned into an underscore, and has no space; a tag that is empty or longer than
\* max_length once trimmed is refused with a ValueError
TagNormalization ==
    call.op = "validated" =>
        LET trimmed == Strip(call.tag)
        IN /\ call.out.ok =>
                 /\ Len(call.out.value) = Len(trimmed)
                 /\ \A i \in 1..Len(trimmed) :
                       /\ call.out.value[i] # 32
                       /\ call.out.value[i] = (IF trimmed[i] = 32 THEN 95 ELSE trimmed[i])
           /\ (trimmed = <<>> \/ Len(trimmed) > call.max_length) =>
                 call.out = Raised("ValueError")

\* C28 witness: a tag with a leading space and an inner one came back trimmed, the inner
\* space an underscore
TagNormalizationWitness ==
    /\ call.op = "validated"
    /\ call.tag = <<32, 97, 32, 97>>
    /\ call.out = Returned(<<97, 95, 97>>)

----------------------------------------------------------------------------
(* sanitize_for_logging.  The log texts are strings.                                   *)

MAX_LOG_MESSAGE_LENGTH == 100

\* Bound of the log texts: the number of pieces a text is put together from
MaxPieces == 5

\* The characters \s matches among those of the log texts
Spaces == {" ", "\t", "\n", "\r", "\f"}

\* The first position at or after i of data that holds no whitespace
RECURSIVE SkipSpaces(_, _)
SkipSpaces(data, i) ==
    IF i <= Len(data) /\ SubSeq(data, i, i) \in Spaces THEN SkipSpaces(data, i + 1) ELSE i

\* data[i:].startswith(prefix)
StartsAt(data, i, prefix) ==
    i + Len(prefix) - 1 <= Len(data) /\ SubSeq(data, i, i + Len(prefix) - 1) = prefix

\* Where a match of  key \s* open [^close]* close  that starts at i ends, 0 for no match
FieldMatchEnd(data, i, key, open, close) ==
    IF ~StartsAt(data, i, key) THEN 0
    ELSE LET j == SkipSpaces(data, i + Len(key))
         IN IF StartsAt(data, j, open) THEN Find(data, close, j + 1) ELSE 0

\* re.sub of the pattern  key \s* open [^close]* close  by repl, from position i on
RECURSIVE SubField(_, _, _, _, _, _)
SubField(data, i, key, open, close, repl) ==
    IF i > Len(data) THEN ""
    ELSE LET e == FieldMatchEnd(data, i, key, open, close)
         IN IF e > 0 THEN repl \o SubField(data, e + 1, key, open, close, repl)
            ELSE SubSeq(data, i, i) \o SubField(data, i + 1, key, open, close, repl)

\* The matches of  File ".*[\\/]([^\\/]+\.py)"  that start at i: <<p, q>> with the last
\* separator at p, nothing but a newline-free text before it, and a name without
\* separators from p + 1 to q that is followed by  .py"
PathMatches(data, i) ==
    IF ~StartsAt(data, i, "File \"") THEN {}
    ELSE {m \in ((i + 6)..Len(data)) \X ((i + 7)..Len(data)) :
            /\ m[1] < m[2]
            /\ SubSeq(data, m[1], m[1]) \in {"/", "\\"}
            /\ \A k \in (i + 6)..(m[1] - 1) : SubSeq(data, k, k) # "\n"
            /\ \A k \in (m[1] + 1)..m[2] : SubSeq(data, k, k) \notin {"/", "\\"}
            /\ StartsAt(data, m[2] + 1, ".py\"")}

\* The match the greedy quantifiers choose: the largest p, then the largest q
GreedyPathMatch(M) ==
    CHOOSE m \in M : \A n \in M : n[1] < m[1] \/ (n[1] = m[1] /\ n[2] <= m[2])

\* _SANITIZE_PATH_RE.sub(r'File "\1"', data), from position i on
RECURSIVE SubPath(_, _)
SubPath(data, i) ==
    IF i > Len(data) THEN ""
    ELSE LET M == PathMatches(data, i)
         IN IF M # {}
            THEN LET m == GreedyPathMatch(M)
                 IN "File \"" \o SubSeq(data, m[1] + 1, m[2] + 3) \o "\""
                    \o SubPath(data, m[2] + 5)
            ELSE SubSeq(data, i, i) \o SubPath(data, i + 1)

\* The four substitutions of sanitize_for_logging, in their order
Redact(data) ==
    LET text == SubField(data, 1, "\"text\":", "\"", "\"", "\"text\":\"[REDACTED]\"")
        query == SubField(text, 1, "\"query\":", "\"", "\"", "\"query\":\"[REDACTED]\"")
        tags == SubField(query, 1, "\"tags\":", "[", "]", "\"tags\":\"[REDACTED]\"")
    IN SubPath(tags, 1)

\* A truncation that already cuts a text of exactly max_length characters
CutInclusive(data, max_length) ==
    IF Len(data) >= max_length THEN SubSeq(data, 1, max_length) \o "..." ELSE data

\* data[:max_length] + "..." if len(data) > max_length else data, for max_length >= 0
Cut(data, max_length) ==
    IF Len(data) > max_length THEN SubSeq(data, 1, max_length) \o "..." ELSE data

\* A sanitize_for_logging that truncates before it redacts
sanitize_truncating_first(data, max_length) == Redact(Cut(data, max_length))

\* sanitize_for_logging(data, max_length) for a str
sanitize_for_logging(data, max_length) == Cut(Redact(data), max_length)

\* The log texts: up to MaxPieces pieces in a row, and some whole messages
Pieces == {"\"text\":", "\"", " ", "s", "A"}

RECURSIVE Joined(_)
Joined(n) ==
    IF n = 0 THEN {""}
    ELSE LET shorter == Joined(n - 1)
         IN shorter \cup {t \o piece : t \in shorter, piece \in Pieces}

Messages ==
    {"File \"C:/d/a.py\"", "File \"C:/d/a.py\" and File \"/e/b.py\"",
     "File \"x \"text\":\"s\" /a.py\"", "{\"query\":\"s\"}", "{\"tags\":[\"s\"]}", "A..."}

LogTexts == Joined(MaxPieces) \cup Messages

\* The values of max_length: none, within a field's value, around the end of the
\* replacement text, and the default
Cuts == {0, 9, 19, 20, MAX_LOG_MESSAGE_LENGTH}

LogInit ==
    /\ Quiet
    /\ call \in [op : {"input"}, data : LogTexts, max_length : Cuts, out : {""}]

\* out = sanitize_for_logging(data, max_length)
Sanitize ==
    /\ call.op = "input"
    /\ call' = [call EXCEPT !.op = "sanitized",
                            !.out = sanitize_for_logging(call.data, call.max_length)]
    /\ UNCHANGED others

SpecLog == LogInit /\ [][Sanitize]_vars

\* The "text" fields of data from left to right, none overlapping the one before it, by
\* the position of their key; the value of the one at k
TextKey == "\"text\":"
RECURSIVE TextFieldsFrom(_, _)
TextFieldsFrom(data, i) ==
    IF i > Len(data) THEN {}
    ELSE LET e == FieldMatchEnd(data, i, TextKey, "\"", "\"")
         IN IF e > 0 THEN {i} \cup TextFieldsFrom(data, e + 1)
            ELSE TextFieldsFrom(data, i + 1)
TextFields(data) == TextFieldsFrom(data, 1)
FieldValue(data, k) ==
    SubSeq(data, SkipSpaces(data, k + Len(TextKey)) + 1,
           FieldMatchEnd(data, k, TextKey, "\"", "\"") - 1)

\* Position i of data lies within the value of a "text" field
InFieldValue(data, i) ==
    \E k \in TextFields(data) :
        /\ SkipSpaces(data, k + Len(TextKey)) < i
        /\ i < FieldMatchEnd(data, k, TextKey, "\"", "\"")

\* data holds none of the other keys sanitize_for_logging rewrites
OnlyTextFields(data) ==
    \A key \in {"\"query\":", "\"tags\":", "File \""} : ~Contains(data, key)

EndsWith(text, suffix) ==
    Len(text) >= Len(suffix) /\ SubSeq(text, Len(text) - Len(suffix) + 1, Len(text)) = suffix

\* C30 as claimed: the output is at most max_length + 3 long and ends with "..." exactly
\* when the redacted text was longer than max_length
TruncationMarked ==
    call.op = "sanitized" =>
        /\ Len(call.out) <= call.max_length + 3
        /\ EndsWith(call.out, "...") <=> Len(Redact(call.data)) > call.max_length

\* C30 amended: the output is at most max_length + 3 long; it is the first max_length
\* characters of the redacted text followed by "..." when that text is longer than
\* max_length, and the redacted text itself otherwise
TruncationBound ==
    call.op = "sanitized" =>
        \A redacted \in {Redact(call.data)} :
            /\ Len(call.out) <= call.max_length + 3
            /\ IF Len(redacted) > call.max_length
               THEN /\ Len(call.out) = call.max_length + 3
                    /\ EndsWith(call.out, "...")
                    /\ SubSeq(call.out, 1, call.max_length)
                           = SubSeq(redacted, 1, call.max_length)
               ELSE call.out = redacted

\* C30 witness: a text that ends with "..." and is within max_length came back as it was
TruncationBoundWitness ==
    /\ call.op = "sanitized"
    /\ call.data = "A..."
    /\ Len(call.data) <= call.max_length
    /\ call.out = "A..."

----------------------------------------------------------------------------
(* The router given commands put together from their fields, at one clock value *)

GateCallbackIds == {"7", "a"}
GateFunctions == {"f", "g"}
GatePayloads == {"", "{}", "{\"a\":1}", "[1]", "{bad", "a:b", OverCap}

\* What the web view sent: the fields of the command.  shape is "ok" (prefix, callback id,
\* function name and, with has_args, the payload), "short" (prefix and one field) or
\* "foreign" (another prefix).  Every payload is sent with a valid callback id to the
\* registered function, the empty object and the oversized one with every other pair.
Envelopes ==
    [shape : {"ok"}, callback_id : {"7"}, function_name : {"f"},
     has_args : {TRUE}, args : GatePayloads]
    \cup [shape : {"ok"}, callback_id : GateCallbackIds, function_name : GateFunctions,
          has_args : {TRUE}, args : {"{}", OverCap}]
    \cup [shape : {"ok"}, callback_id : {"7"}, function_name : {"f"},
          has_args : {FALSE}, args : {""}]
    \cup [shape : {"short", "foreign"}, callback_id : {"7"}, function_name : {"f"},
          has_args : {FALSE}, args : {""}]

\* The command string of an envelope
Command(sent) ==
    IF sent.shape = "foreign" THEN "other:" \o sent.callback_id \o ":" \o sent.function_name
    ELSE IF sent.shape = "short" THEN "ankidroidjs:" \o sent.function_name
    ELSE "ankidroidjs:" \o sent.callback_id \o ":" \o sent.function_name
         \o (IF sent.has_args THEN ":" \o sent.args ELSE "")

\* The registered function returns, or raises
GateOutcomes == {ReturnOk} \cup {f \in FuncOutcomes : f.exc = "ValueError" /\ f.msg = "m1"}

GateReviewer == [present |-> TRUE, card |-> "ok", qfmt |-> "{{Front}}", web |-> TRUE]

GateInit ==
    /\ now = 0
    /\ ticks = 0
    /\ buckets = <<>>
    /\ call_counts = <<>>
    /\ last_cleanup = 0
    /\ res = NoRes
    /\ usedN = <<>>
    /\ streak = <<>>
    /\ hist = <<>>
    /\ reviewer = GateReviewer
    /\ API_REGISTRY = {"f"}
    /\ last = NoDispatch
    /\ probe = NoProbe
    /\ twin = NoTwin
    /\ twinRes = NoRes
    /\ charged = NoCharge
    /\ threads = NoThreads
    /\ mutex = NoMutex
    /\ race = NoRace
    /\ call = NoCall

\* One handle_pycmd call for the command of an envelope; call records what was sent, the
\* args_json the command yields and what the call did
Handle(sent, fOut) ==
    \E o \in {handle_pycmd(Cur, API_REGISTRY, now, reviewer, Command(sent), fOut, {})} :
       /\ SetLimiter(o.L)
       /\ call' = [op |-> "handled", sent |-> sent, args_json |-> ArgsOf(Command(sent)),
                   fOut |-> fOut, out |-> [o EXCEPT !.L = NoTwin]]
       /\ UNCHANGED <<clock, obs, router, twins, charged, threads, mutex, race>>

GateNext == \E sent \in Envelopes, fOut \in GateOutcomes : Handle(sent, fOut)

SpecGate == GateInit /\ [][GateNext]_vars

\* The last command was well formed, and it was admitted for a registered function
Handled == call.op = "handled" /\ call.sent.shape = "ok"
Passed == Handled /\ call.out.admitted /\ call.sent.function_name \in API_REGISTRY

\* C31: the callback id and the function name are the first two fields after the prefix
\* and args_json is all the text after the third colon, "{}" when there is none; without
\* a payload or with an empty one the function is called with no arguments, and a payload
\* with colons in it reaches the function whole
EnvelopeParsing ==
    Handled =>
        /\ call.out.callback_id = call.sent.callback_id
        /\ call.out.function_name = call.sent.function_name
        /\ call.args_json = (IF call.sent.has_args THEN call.sent.args ELSE "{}")
        /\ (Passed /\ (~call.sent.has_args \/ call.sent.args = "")) =>
               /\ call.out.invoked = 1
               /\ call.out.callmode = "kwargs"
               /\ call.out.args = <<>>
        /\ (Passed /\ call.sent.has_args /\ call.sent.args = "{\"a\":1}") =>
               /\ call.out.invoked = 1
               /\ call.out.callmode = "kwargs"
               /\ call.out.args = <<(<<"a", "1">>)>>
        /\ (Passed /\ call.sent.has_args /\ call.sent.args = "a:b") =>
               /\ call.out.invoked = 0
               /\ call.out.caught = Exc("JSONDecodeError", "a:b")

\* C31 witness: a payload with a colon was parsed and expanded into the call
EnvelopeParsingWitness ==
    /\ Passed
    /\ call.args_json = "{\"a\":1}"
    /\ call.out.invoked = 1
    /\ call.out.args = <<(<<"a", "1">>)>>

\* The payload of an envelope as handle_pycmd is to take it
PayloadOf(sent) == IF sent.has_args THEN sent.args ELSE "{}"

\* C34: a command's function is called at most once, and only when the command has the
\* prefix, a callback id and a function name, RateLimiter.check admits it at that moment,
\* the name is registered, the payload is at most MAX_JSON_PAYLOAD_BYTES long and it is
\* empty or json.loads accepts it; the stages were passed in that order
GatedInvocation ==
    [][call'.op = "handled" =>
          /\ call'.out.invoked \in {0, 1}
          /\ call'.out.invoked = 1 =>
                /\ call'.sent.shape = "ok"
                /\ check(Cur, now, TemplateId(reviewer), call'.sent.function_name,
                         DEFAULT_API_RATE_LIMIT_PER_SECOND).ok
                /\ call'.sent.function_name \in API_REGISTRY
                /\ Len(PayloadOf(call'.sent)) <= MAX_JSON_PAYLOAD_BYTES
                /\ PayloadOf(call'.sent) = "" \/ JsonLoads(PayloadOf(call'.sent)).ok
          /\ call'.out.parsed =>
                /\ call'.out.admitted
                /\ call'.sent.function_name \in API_REGISTRY
                /\ Len(PayloadOf(call'.sent)) <= MAX_JSON_PAYLOAD_BYTES
          /\ call'.out.admitted => call'.out.checked /\ call'.sent.shape = "ok"]_vars

\* C34 witness: the last token of a bucket admitted a command whose function was called,
\* while another name's bucket stands as its first command created it
GatedInvocationWitness ==
    /\ Passed
    /\ call.out.invoked = 1
    /\ \E k \in DOMAIN buckets : buckets[k][1] = 0 /\ call_counts[k] = Budget
    /\ \E k \in DOMAIN buckets : buckets[k][1] = FreshTokens(DEFAULT_API_RATE_LIMIT_PER_SECOND)

\* The step handles a well-formed command whose callback id _send_callback refuses
RefusedCallback ==
    /\ call'.op = "handled" /\ call'.sent.shape = "ok"
    /\ ~MatchesCallbackId(call'.sent.callback_id)

\* C35: a well-formed command with an invalid callback id changes the limiter as one
\* check() for its template and function does, and its function is called whenever it is
\* admitted, registered and its payload passes the size check and json.loads; nothing is
\* handed to the web view
LateCallbackValidation ==
    [][RefusedCallback =>
          \E r \in {check(Cur, now, TemplateId(reviewer), call'.sent.function_name,
                          DEFAULT_API_RATE_LIMIT_PER_SECOND)} :
             /\ Limiter(buckets', call_counts', last_cleanup') = r.L
             /\ call'.out.checked /\ call'.out.admitted = r.ok
             /\ call'.out.invoked =
                   (IF /\ r.ok
                       /\ call'.sent.function_name \in API_REGISTRY
                       /\ ~TooLarge(PayloadOf(call'.sent))
                       /\ PayloadOf(call'.sent) = "" \/ JsonLoads(PayloadOf(call'.sent)).ok
                    THEN 1 ELSE 0)
             /\ call'.out.invoked = 1 => call'.out.fcall = call'.fOut.kind
             /\ call'.out.evals = <<>>
             /\ call'.out.raised = ""]_vars

\* C35 witness: a command with the callback id "a" was counted, its function was called
\* and raised, and no response was delivered
LateCallbackValidationWitness ==
    /\ Passed
    /\ call.sent.callback_id = "a"
    /\ call.out.invoked = 1 /\ call.out.fcall = "raise"
    /\ call.out.evals = <<>>
    /\ call_counts[Key(TemplateId(reviewer), "f")] = 2

\* C36: a well-formed command changes the limiter exactly as one check() for its template
\* and function name does, whether or not the name is registered, the payload oversized
\* or the callback id valid, so the first command of a name creates the name's bucket
\* with its counter at 1 and leaves the other names' entries alone; a rejected command
\* is answered with the rate-limit error before its name is looked up; any other
\* command leaves the limiter as it was
OneCheckPerCommand ==
    [][call'.op = "handled" =>
          IF call'.sent.shape = "ok"
          THEN \E r \in {check(Cur, now, TemplateId(reviewer), call'.sent.function_name,
                               DEFAULT_API_RATE_LIMIT_PER_SECOND)},
                  key \in {Key(TemplateId(reviewer), call'.sent.function_name)} :
                  /\ call'.out.checked
                  /\ Limiter(buckets', call_counts', last_cleanup') = r.L
                  /\ key \in DOMAIN buckets' /\ key \in DOMAIN call_counts'
                  /\ key \notin DOMAIN buckets =>
                        /\ buckets'[key] = <<FreshTokens(DEFAULT_API_RATE_LIMIT_PER_SECOND), now>>
                        /\ call_counts'[key] = 1
                  /\ \A k \in DOMAIN buckets \ {key} :
                        /\ k \in DOMAIN buckets' /\ buckets'[k] = buckets[k]
                        /\ CountOf(call_counts', k) = CountOf(call_counts, k)
                  /\ (call'.out.evals # <<>> /\ ~r.ok) =>
                        call'.out.evals[1].response = ErrorResponse("Rate limit exceeded")
          ELSE ~call'.out.checked /\ UNCHANGED limiter]_vars

\* C36 witness: an oversized command with an invalid callback id for the unregistered
\* name was counted in that name's own bucket, next to the registered name's
OneCheckPerCommandWitness ==
    /\ Handled
    /\ call.sent.function_name = "g" /\ call.sent.callback_id = "a"
    /\ call.sent.args = OverCap
    /\ call.out.admitted /\ call.out.invoked = 0
    /\ call_counts[Key(TemplateId(reviewer), "g")] = 2
    /\ Key(TemplateId(reviewer), "f") \in DOMAIN buckets

----------------------------------------------------------------------------
(* reviewer_control: anki_show_answer and anki_answer_ease *)

\* Bound of the runs: the number of reviewer methods called in one run
MaxTouches == 2

\* mw.reviewer: present (not None), card (a card is displayed), state
NoMainReviewer == [present |-> FALSE, card |-> FALSE, state |-> "none"]
MainReviewers ==
    {NoMainReviewer} \cup [present : {TRUE}, card : BOOLEAN,
                           state : {"question", "answer", "transition"}]

\* The ease values a caller can pass
Eases == 0..5

\* One call of a method of the reviewer
Touch(method, ease) == [method |-> method, ease |-> ease]

\* anki_show_answer(): the value returned and the reviewer methods called
anki_show_answer(rv) ==
    IF ~rv.present THEN [returned |-> FALSE, calls |-> <<>>]
    ELSE IF rv.state = "question"
         THEN [returned |-> TRUE, calls |-> <<Touch("_showAnswer", 0)>>]
    ELSE IF rv.state = "answer" THEN [returned |-> TRUE, calls |-> <<>>]
    ELSE [returned |-> FALSE, calls |-> <<>>]

\* An anki_answer_ease that flips a card on its question side and answers it
anki_answer_ease_flipping(rv, ease) ==
    IF ~rv.present \/ ~rv.card \/ ease \notin {1, 2, 3, 4}
    THEN [returned |-> FALSE, calls |-> <<>>]
    ELSE IF rv.state = "question"
         THEN [returned |-> TRUE,
               calls |-> <<Touch("_showAnswer", 0), Touch("_answerCard", ease)>>]
    ELSE IF rv.state # "answer" THEN [returned |-> FALSE, calls |-> <<>>]
    ELSE [returned |-> TRUE, calls |-> <<Touch("_answerCard", ease)>>]

\* anki_answer_ease(ease): the value returned and the reviewer methods called
anki_answer_ease(rv, ease) ==
    IF ~rv.present THEN [returned |-> FALSE, calls |-> <<>>]
    ELSE IF ~rv.card THEN [returned |-> FALSE, calls |-> <<>>]
    ELSE IF ease \notin {1, 2, 3, 4} THEN [returned |-> FALSE, calls |-> <<>>]
    ELSE IF rv.state # "answer" THEN [returned |-> FALSE, calls |-> <<>>]
    ELSE [returned |-> TRUE, calls |-> <<Touch("_answerCard", ease)>>]

\* What the host's reviewer may be after its methods were called: _showAnswer shows the
\* answer side; _answerCard moves on to the next card's question side or, with no card
\* left, to a reviewer without a card
RECURSIVE After(_, _)
After(rv, calls) ==
    IF calls = <<>> THEN {rv}
    ELSE LET next == IF calls[1].method = "_showAnswer"
                     THEN {[rv EXCEPT !.state = "answer"]}
                     ELSE {[rv EXCEPT !.state = "question"],
                           [rv EXCEPT !.card = FALSE, !.state = "transition"]}
         IN UNION {After(n, Tail(calls)) : n \in next}

NoAction == [fn |-> "none", ease |-> 0, before |-> NoMainReviewer, returned |-> FALSE,
             calls |-> <<>>]

ReviewerInit ==
    /\ Quiet
    /\ call \in [op : {"reviewer"}, rv : MainReviewers, last : {NoAction}, log : {<<>>}]

\* One API call: what it returned and called is recorded in last, and every reviewer
\* method called is logged with the reviewer it was called on
Act(fn, ease, o) ==
    /\ call.op = "reviewer"
    /\ Len(call.log) + Len(o.calls) <= MaxTouches
    /\ \E rv \in After(call.rv, o.calls) :
          call' = [call EXCEPT
                      !.rv = rv,
                      !.last = [fn |-> fn, ease |-> ease, before |-> call.rv,
                                returned |-> o.returned, calls |-> o.calls],
                      !.log = @ \o [i \in 1..Len(o.calls) |->
                                      [touch |-> o.calls[i], on |-> call.rv]]]
    /\ UNCHANGED others

AnkiShowAnswer == Act("anki_show_answer", 0, anki_show_answer(call.rv))

AnkiAnswerEase(ease) == Act("anki_answer_ease", ease, anki_answer_ease(call.rv, ease))

ReviewerNext == AnkiShowAnswer \/ \E ease \in Eases : AnkiAnswerEase(ease)

SpecReviewer == ReviewerInit /\ [][ReviewerNext]_vars

\* C32: over a run of calls, _answerCard(ease) is called only on a reviewer with a card
\* whose state is "answer" and with an ease of 1 to 4, by anki_answer_ease(ease) alone
\* and once; _showAnswer only on a reviewer whose state is "question", by
\* anki_show_answer alone and once; anki_answer_ease never calls _showAnswer; and a call
\* that calls no method leaves the reviewer as it was
ReviewerGuard ==
    /\ [](call.op = "reviewer" =>
            /\ \A i \in DOMAIN call.log :
                  IF call.log[i].touch.method = "_answerCard"
                  THEN /\ call.log[i].on.present /\ call.log[i].on.card
                       /\ call.log[i].on.state = "answer"
                       /\ call.log[i].touch.ease \in {1, 2, 3, 4}
                  ELSE /\ call.log[i].touch.method = "_showAnswer"
                       /\ call.log[i].on.present
                       /\ call.log[i].on.state = "question"
            /\ Len(call.last.calls) <= 1
            /\ \A i \in DOMAIN call.last.calls :
                  IF call.last.fn = "anki_answer_ease"
                  THEN call.last.calls[i] = Touch("_answerCard", call.last.ease)
                  ELSE call.last.calls[i] = Touch("_showAnswer", 0))
    /\ [][(call.op = "reviewer" /\ call'.last.calls = <<>>) =>
             call'.rv = call.rv /\ call'.log = call.log]_vars

\* C32 witness: a card was flipped by anki_show_answer and answered with ease 4, and an
\* anki_answer_ease(4) on the next card's question side then called nothing
ReviewerGuardWitness ==
    /\ call.op = "reviewer"
    /\ Len(call.log) = 2
    /\ call.log[1].touch = Touch("_showAnswer", 0)
    /\ call.log[2].touch = Touch("_answerCard", 4)
    /\ call.last.fn = "anki_answer_ease" /\ call.last.ease = 4
    /\ call.last.before.state = "question" /\ call.last.before.card
    /\ call.last.calls = <<>> /\ ~call.last.returned

----------------------------------------------------------------------------
(* One key checked with one rate over a long run, without reset(): the times of the    *)
(* admitted calls are kept                                                             *)

\* Bound of the long runs: the number of clock steps
MaxRunTicks == 3

RunRates == {1, 2}
RunDeltas == {1, TicksPerSec, StaleThreshold + 1}

RunInit ==
    /\ Quiet
    /\ call \in [op : {"run"}, N : RunRates, admits : {<<>>}, ok : {FALSE}]

RunTick(d) ==
    /\ call.op = "run"
    /\ ticks < MaxRunTicks
    /\ now' = now + d
    /\ ticks' = ticks + 1
    /\ UNCHANGED <<limiter, obs, router, twins, aside>>

\* check("a", "c", N) at the clock value now
RunCheck ==
    /\ call.op = "run"
    /\ \E r \in {check(Cur, now, "a", "c", call.N)} :
          /\ SetLimiter(r.L)
          /\ call' = [call EXCEPT !.ok = r.ok,
                                  !.admits = IF r.ok THEN Append(@, now) ELSE @]
    /\ UNCHANGED <<clock, obs, router, twins, charged, threads, mutex, race>>

RunNext == RunCheck \/ \E d \in RunDeltas : RunTick(d)

SpecRun == RunInit /\ [][RunNext]_vars

\* C33: of the calls admitted for the key, those within any interval of T seconds are at
\* most N * T + N + 1 (times in ticks, so both sides are multiplied by TicksPerSec)
LongRunRateBound ==
    call.op = "run" =>
        \A i \in DOMAIN call.admits : \A j \in i..Len(call.admits) :
            (j - i + 1) * TicksPerSec
                <= call.N * (call.admits[j] - call.admits[i]) + (call.N + 1) * TicksPerSec

\* C33 witness: N + 1 calls were admitted at one clock value, the bucket was evicted as
\* stale and created again, and N + 1 calls were admitted at the later clock value
LongRunRateBoundWitness ==
    /\ call.op = "run"
    /\ Len(call.admits) = 2 * (call.N + 1)
    /\ call.admits[call.N + 1] = call.admits[1]
    /\ call.admits[call.N + 2] - call.admits[1] > StaleThreshold
    /\ call.admits[2 * (call.N + 1)] = call.admits[call.N + 2]
    /\ ~call.ok

----------------------------------------------------------------------------
(* The limiter with all its operations, get_call_count included, for identifiers and    *)
(* operations with and without a colon                                                 *)

CountIdentifiers == {"a", "a:b"}
CountOperations == {"c", "b:c"}
CountPairs == CountIdentifiers \X CountOperations
CountRates == {1}
CountDeltas == {TicksPerSec, StaleThreshold + 1}

\* A lookup by subscript: _call_counts is a defaultdict(int), which stores 0 for a key
\* it is asked for and does not hold
call_counts_getitem(c, key) ==
    IF key \in DOMAIN c THEN [value |-> c[key], call_counts |-> c]
    ELSE [value |-> 0, call_counts |-> Put(c, key, 0)]

\* cls._call_counts.get(key, 0): the value returned and the counters afterwards
call_counts_get(c, key) ==
    [value |-> IF key \in DOMAIN c THEN c[key] ELSE 0, call_counts |-> c]

NoCount == [op |-> "counts", fn |-> "none", identifier |-> "", operation |-> "", value |-> 0]

CountsInit ==
    /\ Quiet
    /\ call = NoCount

CountsTick(d) ==
    /\ call.op = "counts"
    /\ ticks < MaxTicks
    /\ now' = now + d
    /\ ticks' = ticks + 1
    /\ UNCHANGED <<limiter, obs, router, twins, aside>>

\* check(identifier, operation, N); value is 1 for True
CountsCheck(identifier, operation, N) ==
    /\ call.op = "counts"
    /\ \E r \in {check(Cur, now, identifier, operation, N)} :
          /\ SetLimiter(r.L)
          /\ call' = [NoCount EXCEPT !.fn = "check", !.identifier = identifier,
                                     !.operation = operation,
                                     !.value = IF r.ok THEN 1 ELSE 0]
    /\ UNCHANGED <<clock, obs, router, twins, charged, threads, mutex, race>>

\* get_call_count(identifier, operation)
GetCallCount(identifier, operation) ==
    /\ call.op = "counts"
    /\ \E g \in {call_counts_get(call_counts, Key(identifier, operation))} :
          /\ call_counts' = g.call_counts
          /\ call' = [NoCount EXCEPT !.fn = "get_call_count", !.identifier = identifier,
                                     !.operation = operation, !.value = g.value]
    /\ UNCHANGED <<clock, buckets, last_cleanup, obs, router, twins, charged, threads,
                   mutex, race>>

\* reset(identifier), reset() for identifier = ""
CountsReset(identifier) ==
    /\ call.op = "counts"
    /\ SetLimiter(reset(Cur, identifier))
    /\ call' = [NoCount EXCEPT !.fn = "reset", !.identifier = identifier]
    /\ UNCHANGED <<clock, obs, router, twins, charged, threads, mutex, race>>

CountsNext ==
    \/ \E d \in CountDeltas : CountsTick(d)
    \/ \E p \in CountPairs, N \in CountRates : CountsCheck(p[1], p[2], N)
    \/ \E p \in CountPairs : GetCallCount(p[1], p[2])
    \/ \E i \in CountIdentifiers \cup {""} : CountsReset(i)

SpecCounts == CountsInit /\ [][CountsNext]_vars

\* C37: the keys with a bucket are the keys with a counter, every counter is at least 1,
\* and get_call_count changes neither and returns the key's counter, 0 without one
BucketCounterConsistency ==
    /\ [](/\ DOMAIN buckets = DOMAIN call_counts
          /\ \A k \in DOMAIN call_counts : call_counts[k] >= 1)
    /\ [][call'.fn = "get_call_count" =>
             /\ UNCHANGED limiter
             /\ call'.value = CountOf(call_counts, Key(call'.identifier, call'.operation))
         ]_vars

\* C37 witness: past the stale threshold get_call_count returned 0 for a key without a
\* bucket, while another key holds a bucket and a counter of 2
BucketCounterConsistencyWitness ==
    /\ call.op = "counts" /\ call.fn = "get_call_count"
    /\ call.value = 0
    /\ now > StaleThreshold
    /\ Key(call.identifier, call.operation) \notin DOMAIN buckets
    /\ \E k \in DOMAIN buckets : call_counts[k] = 2

\* C39 as claimed: a check() for one pair leaves get_call_count of every other pair as
\* it was
KeyInjectivity ==
    [][call'.fn = "check" =>
          \A q \in CountPairs \ {<<call'.identifier, call'.operation>>} :
              get_call_count(call_counts', q[1], q[2])
                  = get_call_count(call_counts, q[1], q[2])]_vars

----------------------------------------------------------------------------
(* The age of the buckets, in the runs around the two thresholds *)

\* C38: right after a check() at the clock value now, every stored bucket has
\* now - last_refill <= stale threshold + cleanup interval, and last_refill is the time
\* of the last admitted call for its key, so every key with a bucket was admitted within
\* that window
MemoryReclamationBound ==
    [][IsCheck =>
          \A k \in DOMAIN buckets' :
              /\ now' - buckets'[k][2] <= StaleThreshold + CleanupInterval
              /\ hist'[k].admits >= 1
              /\ hist'[k].lastAdmit = buckets'[k][2]]_vars

\* C38 witness: a bucket that was exactly at the stale threshold when the sweep ran is
\* still stored after a check() made one cleanup interval later
MemoryReclamationBoundWitness ==
    /\ res.called
    /\ buckets[res.key][2] = now
    /\ now - last_cleanup = CleanupInterval
    /\ \E k \in DOMAIN buckets : now - buckets[k][2] = StaleThreshold + CleanupInterval

====
